---- MODULE Spec2Model ----
(***************************************************************************)
(* The Bitbucket Server MCP server (src/index.ts): its diff processing     *)
(* pipeline (matchesGlobPattern, fileMatchesPatterns, filterDiff,          *)
(* truncateDiff, truncateFileSection), getDiff, which runs it, and the     *)
(* BitbucketServer object (constructor, ListTools and CallTool handlers).  *)
(*                                                                         *)
(* A string is a sequence of one-character strings.  A diff line is a      *)
(* record: the code only looks at a line through startsWith tests and one  *)
(* regular expression, so a line is its class ("kind"), the b-side path    *)
(* the header expression captures ("b", the empty string when it does not  *)
(* match), and its position in the input ("pos"), which keeps lines apart. *)
(***************************************************************************)
EXTENDS Integers, Sequences, FiniteSets, TLC

VARIABLES
    mc,     \* one call of matchesGlobPattern / fileMatchesPatterns
    fd,     \* one call of filterDiff: its arguments, locals and result
            \* (one call per caller where two callers run)
    td,     \* one call of truncateDiff: its arguments, locals and result
            \* (one call per caller where two callers run)
    ts,     \* one call of truncateFileSection
    srv,    \* the BitbucketServer object: environment, config, handlers
    gd      \* one call of getDiff: its arguments, the setting and its result

vars == <<mc, fd, td, ts, srv, gd>>

\* A variable of a component that the specification at hand does not run.
Idle == [pc |-> "idle"]

\* An optional argument: JavaScript's undefined when it was not given,
\* otherwise the value wrapped in a record.
Undefined == [undefined |-> TRUE]
Given(v) == [value |-> v]

(***************************************************************************)
(* Bounds                                                                  *)
(***************************************************************************)
MaxPatternLen == 3
MaxPathLen == 3
MaxPatternCount == 2
MaxSegments == 3
MaxBodyLen == 1
MaxDiffLines == 6
MaxSectionLen == 10
MaxLinesPerFile == 6
MaxPipelineSegments == 2
MaxHunkLen == 2
MaxStepLines == 4
MaxGetDiffFiles == 2

(***************************************************************************)
(* Strings                                                                 *)
(***************************************************************************)
RECURSIVE SeqsUpTo(_, _)
SeqsUpTo(S, n) ==
    IF n = 0 THEN {<<>>}
    ELSE LET shorter == SeqsUpTo(S, n - 1)
         IN  shorter \cup {Append(s, c) : s \in {t \in shorter : Len(t) = n - 1}, c \in S}

StartsWith(s, prefix) ==
    /\ Len(s) >= Len(prefix)
    /\ SubSeq(s, 1, Len(prefix)) = prefix

\* String.prototype.replace with a global literal expression: every
\* leftmost, non-overlapping occurrence of `find' becomes `repl'.
RECURSIVE ReplaceAll(_, _, _)
ReplaceAll(s, find, repl) ==
    IF s = <<>> THEN <<>>
    ELSE IF StartsWith(s, find)
         THEN repl \o ReplaceAll(SubSeq(s, Len(find) + 1, Len(s)), find, repl)
         ELSE <<Head(s)>> \o ReplaceAll(Tail(s), find, repl)

(***************************************************************************)
(* matchesGlobPattern                                                      *)
(***************************************************************************)
\* The character class of the first replace: . + ^ $ { } ( ) | [ ] \
RegexSpecialChars == {".", "+", "^", "$", "{", "}", "(", ")", "|", "[", "]", "\\"}

\* .replace(/[.+^${}()|[\]\\]/g, '\\$&')
RECURSIVE EscapeRegexChars(_)
EscapeRegexChars(s) ==
    IF s = <<>> THEN <<>>
    ELSE (IF Head(s) \in RegexSpecialChars THEN <<"\\", Head(s)>> ELSE <<Head(s)>>)
         \o EscapeRegexChars(Tail(s))

GlobstarPlaceholder == <<"{", "{", "G", "L", "O", "B", "S", "T", "A", "R", "}", "}">>

\* A plausible slip: the single star is substituted before the double star,
\* so `**' is spent as two single stars and never reaches its placeholder.
GlobToRegexStarFirst(pattern) ==
    LET escaped   == EscapeRegexChars(pattern)
        star      == ReplaceAll(escaped, <<"*">>, <<"[", "^", "/", "]", "*">>)
        globstar  == ReplaceAll(star, <<"*", "*">>, GlobstarPlaceholder)
        question  == ReplaceAll(globstar, <<"?">>, <<"[", "^", "/", "]">>)
    IN  ReplaceAll(question, GlobstarPlaceholder, <<".", "*">>)

\* The chain of five replaces that builds regexPattern.
GlobToRegex(pattern) ==
    LET escaped   == EscapeRegexChars(pattern)
        globstar  == ReplaceAll(escaped, <<"*", "*">>, GlobstarPlaceholder)
        star      == ReplaceAll(globstar, <<"*">>, <<"[", "^", "/", "]", "*">>)
        question  == ReplaceAll(star, <<"?">>, <<"[", "^", "/", "]">>)
    IN  ReplaceAll(question, GlobstarPlaceholder, <<".", "*">>)

\* new RegExp(source): the atoms of the expression, each with its
\* quantifier.  Only the constructs the replaces can produce occur: an
\* escaped character, the class [^/], the dot, a plain character, and a
\* star after any of them.
RECURSIVE RegexAtoms(_)
RegexAtoms(src) ==
    IF src = <<>> THEN <<>>
    ELSE LET atom == IF Head(src) = "\\" /\ Len(src) >= 2
                         THEN [type |-> "char", ch |-> src[2], len |-> 2]
                     ELSE IF StartsWith(src, <<"[", "^", "/", "]">>)
                         THEN [type |-> "notslash", ch |-> "/", len |-> 4]
                     ELSE IF Head(src) = "."
                         THEN [type |-> "dot", ch |-> ".", len |-> 1]
                     ELSE [type |-> "char", ch |-> Head(src), len |-> 1]
             starred == Len(src) > atom.len /\ src[atom.len + 1] = "*"
             used == atom.len + (IF starred THEN 1 ELSE 0)
         IN  <<[type |-> atom.type, ch |-> atom.ch, star |-> starred]>>
             \o RegexAtoms(SubSeq(src, used + 1, Len(src)))

\* Line terminators, which the dot of a RegExp without the s flag refuses.
LineTerminators == {"\n", "\r"}

AtomAccepts(atom, c) ==
    CASE atom.type = "char"     -> c = atom.ch
      [] atom.type = "notslash" -> c # "/"
      [] atom.type = "dot"      -> c \notin LineTerminators

\* ^atoms$ against the whole of s, from atom i and character j on.
RECURSIVE RegexMatchFrom(_, _, _, _)
RegexMatchFrom(atoms, s, i, j) ==
    IF i > Len(atoms) THEN j > Len(s)
    ELSE IF atoms[i].star
         THEN \/ RegexMatchFrom(atoms, s, i + 1, j)
              \/ /\ j <= Len(s)
                 /\ AtomAccepts(atoms[i], s[j])
                 /\ RegexMatchFrom(atoms, s, i, j + 1)
         ELSE /\ j <= Len(s)
              /\ AtomAccepts(atoms[i], s[j])
              /\ RegexMatchFrom(atoms, s, i + 1, j + 1)

\* new RegExp(`^${regexPattern}$`).test(filePath)
RegexTest(regexPattern, filePath) ==
    RegexMatchFrom(RegexAtoms(regexPattern), filePath, 1, 1)

matchesGlobPattern(filePath, pattern) ==
    RegexTest(GlobToRegex(pattern), filePath)

(***************************************************************************)
(* fileMatchesPatterns                                                     *)
(***************************************************************************)
\* for (const pattern of patterns) if (matchesGlobPattern(...)) return ...
RECURSIVE AnyPatternMatches(_, _)
AnyPatternMatches(filePath, patterns) ==
    IF patterns = <<>> THEN FALSE
    ELSE IF matchesGlobPattern(filePath, Head(patterns)) THEN TRUE
    ELSE AnyPatternMatches(filePath, Tail(patterns))

\* `patterns && patterns.length > 0'
NonEmptyList(patterns) == patterns # Undefined /\ Len(patterns.value) > 0

\* A plausible slip: the include list is consulted first, so a path that an
\* include pattern matches is kept even when an exclude pattern matches it.
fileMatchesPatternsIncludeFirst(filePath, includePatterns, excludePatterns) ==
    IF NonEmptyList(includePatterns) /\ AnyPatternMatches(filePath, includePatterns.value)
        THEN TRUE
    ELSE IF NonEmptyList(excludePatterns) /\ AnyPatternMatches(filePath, excludePatterns.value)
        THEN FALSE
    ELSE ~NonEmptyList(includePatterns)

fileMatchesPatterns(filePath, includePatterns, excludePatterns) ==
    IF NonEmptyList(excludePatterns) /\ AnyPatternMatches(filePath, excludePatterns.value)
        THEN FALSE
    ELSE IF NonEmptyList(includePatterns)
        THEN AnyPatternMatches(filePath, includePatterns.value)
    ELSE TRUE

(***************************************************************************)
(* Diff text                                                               *)
(***************************************************************************)
\* A text is the non-empty sequence of its lines (the empty string is one
\* empty line).  A line of the input carries its position; a line the code
\* makes up carries position 0 and what it says in syn.
InputLine(kind, b, pos) == [kind |-> kind, b |-> b, pos |-> pos, syn |-> <<>>]
SynLine(words) == [kind |-> "text", b |-> <<>>, pos |-> 0, syn |-> words]
BlankLine == SynLine(<<"">>)

\* diffContent.split('\n')
Split(text) == text

\* lines.join('\n'): an empty array joins to the empty string, which is
\* the text of one empty line.
Join(lines) == IF lines = <<>> THEN <<BlankLine>> ELSE lines

\* line.startsWith('diff --git ')
IsFileHeader(line) == line.kind = "git"

\* line.startsWith('index ') || line.startsWith('+++') || line.startsWith('---')
IsFileMetadata(line) == line.kind \in {"index", "plus", "minus"}

\* line.startsWith('@@')
IsHunkHeader(line) == line.kind = "hunk"

\* line.match(/diff --git a\/(.+) b\/(.+)/): capture group 2, which is
\* never empty; <<>> stands for a failed match.
HeaderMatch(line) == line.b

\* `!x' for an optional number: undefined and 0 are falsy.
Truthy(x) == x # Undefined /\ x.value # 0

(***************************************************************************)
(* filterDiff                                                              *)
(***************************************************************************)
\* A plausible slip: a negation is lost and the early return is taken only
\* when include patterns are given.
FilterNotNeededLostNegation(filterOptions) ==
    /\ NonEmptyList(filterOptions.includePaths)
    /\ ~NonEmptyList(filterOptions.excludePaths)
    /\ ~Truthy(filterOptions.maxFiles)
    /\ ~Truthy(filterOptions.maxTotalLines)

\* !includePaths?.length && !excludePaths?.length && !maxFiles && !maxTotalLines
FilterNotNeeded(filterOptions) ==
    /\ ~NonEmptyList(filterOptions.includePaths)
    /\ ~NonEmptyList(filterOptions.excludePaths)
    /\ ~Truthy(filterOptions.maxFiles)
    /\ ~Truthy(filterOptions.maxTotalLines)

\* A plausible slip: the `diff --git' line that opens the buffer is left
\* out of the count.
SegmentLineCountWithoutHeader(currentFileLines) ==
    Len(SelectSeq(currentFileLines, LAMBDA l : ~IsFileHeader(l)))

\* currentFileLines.length, the number the line budget adds up
SegmentLineCount(currentFileLines) == Len(currentFileLines)

\* The locals of filterDiff before its loop.
FilterLocals(diffContent, filterOptions) ==
    [lines             |-> Split(diffContent),
     includePaths      |-> filterOptions.includePaths,
     excludePaths      |-> filterOptions.excludePaths,
     maxFiles          |-> filterOptions.maxFiles,
     maxTotalLines     |-> filterOptions.maxTotalLines,
     result            |-> <<>>,
     currentFileLines  |-> <<>>,
     currentFileName   |-> <<>>,
     includedFiles     |-> 0,
     excludedFiles     |-> 0,
     totalLines        |-> 0,
     reachedMaxFiles   |-> FALSE,
     reachedMaxLines   |-> FALSE]

\* A plausible slip: the two reached flags are not tested, so every file
\* that passes the patterns is held against both limits.
flushCurrentFileNotSticky(s) ==
    IF Len(s.currentFileLines) = 0 THEN s
    ELSE LET shouldInclude ==
                 fileMatchesPatterns(s.currentFileName, s.includePaths, s.excludePaths)
         IN  IF shouldInclude
             THEN IF Truthy(s.maxFiles) /\ s.includedFiles >= s.maxFiles.value
                  THEN [s EXCEPT !.reachedMaxFiles = TRUE,
                                 !.excludedFiles = @ + 1,
                                 !.currentFileLines = <<>>]
                  ELSE IF /\ Truthy(s.maxTotalLines)
                          /\ s.totalLines + SegmentLineCount(s.currentFileLines)
                                 > s.maxTotalLines.value
                  THEN [s EXCEPT !.reachedMaxLines = TRUE,
                                 !.excludedFiles = @ + 1,
                                 !.currentFileLines = <<>>]
                  ELSE [s EXCEPT !.result = @ \o s.currentFileLines,
                                 !.includedFiles = @ + 1,
                                 !.totalLines = @ + SegmentLineCount(s.currentFileLines),
                                 !.currentFileLines = <<>>]
             ELSE [s EXCEPT !.excludedFiles = @ + 1,
                            !.currentFileLines = <<>>]

flushCurrentFile(s) ==
    IF Len(s.currentFileLines) = 0 THEN s
    ELSE LET shouldInclude ==
                 fileMatchesPatterns(s.currentFileName, s.includePaths, s.excludePaths)
         IN  IF shouldInclude /\ ~s.reachedMaxFiles /\ ~s.reachedMaxLines
             THEN IF Truthy(s.maxFiles) /\ s.includedFiles >= s.maxFiles.value
                  THEN [s EXCEPT !.reachedMaxFiles = TRUE,
                                 !.excludedFiles = @ + 1,
                                 !.currentFileLines = <<>>]
                  ELSE IF /\ Truthy(s.maxTotalLines)
                          /\ s.totalLines + SegmentLineCount(s.currentFileLines)
                                 > s.maxTotalLines.value
                  THEN [s EXCEPT !.reachedMaxLines = TRUE,
                                 !.excludedFiles = @ + 1,
                                 !.currentFileLines = <<>>]
                  ELSE [s EXCEPT !.result = @ \o s.currentFileLines,
                                 !.includedFiles = @ + 1,
                                 !.totalLines = @ + SegmentLineCount(s.currentFileLines),
                                 !.currentFileLines = <<>>]
             ELSE [s EXCEPT !.excludedFiles = @ + 1,
                            !.currentFileLines = <<>>]

\* The body of `for (const line of lines)'.
FilterLine(s, line) ==
    IF IsFileHeader(line)
    THEN LET flushed == flushCurrentFile(s)
         IN  [flushed EXCEPT !.currentFileName = HeaderMatch(line),
                             !.currentFileLines = Append(@, line)]
    ELSE IF s.currentFileName # <<>>
    THEN [s EXCEPT !.currentFileLines = Append(@, line)]
    ELSE [s EXCEPT !.result = Append(@, line)]

RECURSIVE FilterLoop(_, _)
FilterLoop(s, i) ==
    IF i > Len(s.lines) THEN s
    ELSE FilterLoop(FilterLine(s, s.lines[i]), i + 1)

\* A plausible slip: the block is pushed whether or not a file was excluded.
FilterSummaryAlways(s) ==
    <<BlankLine, SynLine(<<"DIFF FILTERED", s.excludedFiles>>)>>
    \o (IF s.reachedMaxFiles
        THEN <<SynLine(<<"Reached maxFiles limit of", s.maxFiles.value>>)>>
        ELSE <<>>)
    \o (IF s.reachedMaxLines
        THEN <<SynLine(<<"Reached maxTotalLines limit of", s.maxTotalLines.value>>)>>
        ELSE <<>>)
    \o <<SynLine(<<"Showing", s.includedFiles, s.totalLines>>)>>

\* The summary block pushed when files were filtered out.
FilterSummary(s) ==
    IF s.excludedFiles > 0
    THEN <<BlankLine, SynLine(<<"DIFF FILTERED", s.excludedFiles>>)>>
         \o (IF s.reachedMaxFiles
             THEN <<SynLine(<<"Reached maxFiles limit of", s.maxFiles.value>>)>>
             ELSE <<>>)
         \o (IF s.reachedMaxLines
             THEN <<SynLine(<<"Reached maxTotalLines limit of", s.maxTotalLines.value>>)>>
             ELSE <<>>)
         \o <<SynLine(<<"Showing", s.includedFiles, s.totalLines>>)>>
    ELSE <<>>

filterDiff(diffContent, filterOptions) ==
    IF FilterNotNeeded(filterOptions)
    THEN [filtered |-> diffContent,
          stats    |-> [includedFiles |-> 0, excludedFiles |-> 0,
                        totalLines |-> Len(Split(diffContent))]]
    ELSE LET looped == FilterLoop(FilterLocals(diffContent, filterOptions), 1)
             s == flushCurrentFile(looped)
         IN  [filtered |-> Join(s.result \o FilterSummary(s)),
              stats    |-> [includedFiles |-> s.includedFiles,
                            excludedFiles |-> s.excludedFiles,
                            totalLines |-> s.totalLines]]

(***************************************************************************)
(* truncateFileSection                                                     *)
(***************************************************************************)
\* Array.prototype.slice(start, end): a negative index counts from the
\* end, and both are clamped to the array.
Slice(arr, start, end) ==
    LET len  == Len(arr)
        from == IF start < 0 THEN (IF len + start > 0 THEN len + start ELSE 0)
                ELSE (IF start < len THEN start ELSE len)
        to   == IF end < 0 THEN (IF len + end > 0 THEN len + end ELSE 0)
                ELSE (IF end < len THEN end ELSE len)
    IN  SubSeq(arr, from + 1, to)

\* Array.prototype.slice(start)
SliceFrom(arr, start) == Slice(arr, start, Len(arr))

\* Math.floor(maxLines * 0.6) and Math.floor(maxLines * 0.4).  The double
\* products round to the same integers as the exact fractions (compared
\* for every maxLines from -100000 to 2000000).
ShowAtStart(maxLines) == (maxLines * 3) \div 5
ShowAtEnd(maxLines) == (maxLines * 2) \div 5

\* A different block: a blank line, four bracketed lines, a blank line.
TruncationMarkerOfSix(truncatedCount, fileName, total, showAtStart, showAtEnd) ==
    <<BlankLine,
      SynLine(<<"FILE TRUNCATED", truncatedCount, fileName>>),
      SynLine(<<"File had", total>>),
      SynLine(<<"showing first and last", showAtStart, showAtEnd>>),
      SynLine(<<"Use maxLinesPerFile=0 to see complete diff">>),
      BlankLine>>

\* The five lines pushed between the two windows.
TruncationMarker(truncatedCount, fileName, total, showAtStart, showAtEnd) ==
    <<BlankLine,
      SynLine(<<"FILE TRUNCATED", truncatedCount, fileName>>),
      SynLine(<<"File had", total, showAtStart, showAtEnd>>),
      SynLine(<<"Use maxLinesPerFile=0 to see complete diff">>),
      BlankLine>>

truncateFileSection(fileLines, fileName, maxLines) ==
    IF Len(fileLines) <= maxLines THEN fileLines
    ELSE LET contentLines == SelectSeq(fileLines, LAMBDA l : ~IsHunkHeader(l))
             hunkHeaders  == SelectSeq(fileLines, IsHunkHeader)
         IN  IF Len(contentLines) <= maxLines THEN fileLines
             ELSE LET showAtStart    == ShowAtStart(maxLines)
                      showAtEnd      == ShowAtEnd(maxLines)
                      truncatedCount == Len(contentLines) - showAtStart - showAtEnd
                  IN  hunkHeaders
                      \o Slice(contentLines, 0, showAtStart)
                      \o TruncationMarker(truncatedCount, fileName, Len(contentLines),
                                          showAtStart, showAtEnd)
                      \o SliceFrom(contentLines, -showAtEnd)

(***************************************************************************)
(* truncateDiff                                                            *)
(***************************************************************************)
\* A plausible slip: only `!maxLinesPerFile' is tested, so a negative
\* budget goes on to the loop.
TruncateNotNeededOnlyFalsy(maxLinesPerFile) == ~Truthy(maxLinesPerFile)

\* A plausible slip: only an unset or negative budget returns early, so the
\* budget 0 goes on to the loop.
TruncateNotNeededOnlyUnset(maxLinesPerFile) ==
    \/ maxLinesPerFile = Undefined
    \/ maxLinesPerFile.value < 0

\* !maxLinesPerFile || maxLinesPerFile <= 0
TruncateNotNeeded(maxLinesPerFile) ==
    \/ ~Truthy(maxLinesPerFile)
    \/ maxLinesPerFile.value <= 0

NameUnknown == <<"u", "n", "k", "n", "o", "w", "n">>

\* The locals of truncateDiff before its loop.
TruncateLocals(diffContent, maxLinesPerFile) ==
    [lines             |-> Split(diffContent),
     maxLinesPerFile   |-> maxLinesPerFile.value,
     result            |-> <<>>,
     currentFileLines  |-> <<>>,
     currentFileName   |-> <<>>,
     inFileContent     |-> FALSE]

\* A variation: the section of the previous file stays in the buffer.
TruncateFlushKeepsBuffer(s) == s

\* if (currentFileLines.length > 0) result.push(...truncateFileSection(...))
TruncateFlush(s) ==
    IF Len(s.currentFileLines) > 0
    THEN [s EXCEPT !.result = @ \o truncateFileSection(s.currentFileLines,
                                                        s.currentFileName,
                                                        s.maxLinesPerFile),
                   !.currentFileLines = <<>>]
    ELSE s

\* The body of `for (const line of lines)'.
TruncateLine(s, line) ==
    IF IsFileHeader(line)
    THEN LET flushed == TruncateFlush(s)
         IN  [flushed EXCEPT !.currentFileName =
                                 IF HeaderMatch(line) # <<>> THEN HeaderMatch(line)
                                 ELSE NameUnknown,
                             !.inFileContent = FALSE,
                             !.result = Append(@, line)]
    ELSE IF IsFileMetadata(line)
    THEN [s EXCEPT !.result = Append(@, line)]
    ELSE IF IsHunkHeader(line)
    THEN [s EXCEPT !.inFileContent = TRUE,
                   !.currentFileLines = Append(@, line)]
    ELSE IF s.inFileContent
    THEN [s EXCEPT !.currentFileLines = Append(@, line)]
    ELSE [s EXCEPT !.result = Append(@, line)]

RECURSIVE TruncateLoop(_, _)
TruncateLoop(s, i) ==
    IF i > Len(s.lines) THEN s
    ELSE TruncateLoop(TruncateLine(s, s.lines[i]), i + 1)

truncateDiff(diffContent, maxLinesPerFile) ==
    IF TruncateNotNeeded(maxLinesPerFile) THEN diffContent
    ELSE LET looped == TruncateLoop(TruncateLocals(diffContent, maxLinesPerFile), 1)
         IN  Join(TruncateFlush(looped).result)

(***************************************************************************)
(* getDiff                                                                 *)
(***************************************************************************)
Digits == <<"0", "1", "2", "3", "4", "5", "6", "7", "8", "9">>

IsDigit(c) == \E k \in 1..Len(Digits) : Digits[k] = c

DigitValue(c) == (CHOOSE k \in 1..Len(Digits) : Digits[k] = c) - 1

\* What parseInt returns for a text without a number at its start.
NaN == [nan |-> TRUE]

RECURSIVE SkipWhiteSpace(_)
SkipWhiteSpace(text) ==
    IF text # <<>> /\ Head(text) = " " THEN SkipWhiteSpace(Tail(text)) ELSE text

RECURSIVE DigitRun(_)
DigitRun(text) ==
    IF text # <<>> /\ IsDigit(Head(text))
    THEN <<Head(text)>> \o DigitRun(Tail(text))
    ELSE <<>>

RECURSIVE DecimalValue(_)
DecimalValue(digits) ==
    IF digits = <<>> THEN 0
    ELSE 10 * DecimalValue(SubSeq(digits, 1, Len(digits) - 1))
         + DigitValue(digits[Len(digits)])

\* parseInt(text, 10): leading white space and one sign are skipped, the
\* decimal digits that follow are read up to the first other character.
ParseInt(text) ==
    LET trimmed == SkipWhiteSpace(text)
        signed == trimmed # <<>> /\ Head(trimmed) \in {"-", "+"}
        run == DigitRun(IF signed THEN Tail(trimmed) ELSE trimmed)
    IN  IF run = <<>> THEN NaN
        ELSE IF signed /\ Head(trimmed) = "-" THEN Given(0 - DecimalValue(run))
        ELSE Given(DecimalValue(run))

\* config.maxLinesPerFile: parseInt of the variable when it is set and not
\* empty, otherwise undefined.
ConfiguredMaxLines(setting) ==
    IF setting = Undefined \/ setting.value = <<>>
    THEN Undefined
    ELSE ParseInt(setting.value)

\* JavaScript's truthiness of an optional number that may be NaN.
TruthyNumber(x) == x # Undefined /\ x # NaN /\ x.value # 0

\* A variant of EffectiveMaxLines that takes the parameter only when truthy.
EffectiveMaxLinesIfTruthy(maxLinesPerFile, configured) ==
    IF Truthy(maxLinesPerFile) THEN maxLinesPerFile ELSE configured

\* maxLinesPerFile !== undefined ? maxLinesPerFile : this.config.maxLinesPerFile
EffectiveMaxLines(maxLinesPerFile, configured) ==
    IF maxLinesPerFile # Undefined THEN maxLinesPerFile ELSE configured

\* getDiff from the parameter test on; `response' is the text the Bitbucket
\* API answered with.  `stages' lists the calls made, in their order.
getDiff(paramsGiven, response, maxLinesPerFile, filterOptions, configured) ==
    IF ~paramsGiven
    THEN [error |-> "InvalidParams", stages |-> <<>>, text |-> <<>>]
    ELSE
    LET filtered == IF filterOptions # Undefined
                    THEN filterDiff(response, filterOptions.value).filtered
                    ELSE response
        effectiveMaxLines == EffectiveMaxLines(maxLinesPerFile, configured)
    IN  [error |-> "none",
         stages |-> (IF filterOptions # Undefined THEN <<"filterDiff">> ELSE <<>>)
                    \o (IF TruthyNumber(effectiveMaxLines)
                        THEN <<"truncateDiff">> ELSE <<>>),
         text |-> IF TruthyNumber(effectiveMaxLines)
                  THEN truncateDiff(filtered, effectiveMaxLines)
                  ELSE filtered]

(***************************************************************************)
(* Calls of the path matcher                                               *)
(***************************************************************************)
PatternChars == {"a", "/", ".", "*", "?"}
PathChars == {"a", "b", "/", "."}

\* The paths and patterns of the documented examples, one letter per name:
\* src/a/b.ts, src/a/b/c.ts, src/a.ts; src/**/b.ts, src/*/b.ts, src/*/c.ts,
\* src/**, **/*.ts.
PathSAB  == <<"s", "/", "a", "/", "b", ".", "t">>
PathSABC == <<"s", "/", "a", "/", "b", "/", "c", ".", "t">>
PathSA   == <<"s", "/", "a", ".", "t">>
PatGlobstarB == <<"s", "/", "*", "*", "/", "b", ".", "t">>
PatStarB     == <<"s", "/", "*", "/", "b", ".", "t">>
PatStarC     == <<"s", "/", "*", "/", "c", ".", "t">>
PatUnderS    == <<"s", "/", "*", "*">>
PatAnyT      == <<"*", "*", "/", "*", ".", "t">>

\* The documented pattern **/package-lock.json with the name a, and the file
\* of that name two directories down.
PatAnyDepthA == <<"*", "*", "/", "a">>
PathBBA == <<"b", "/", "b", "/", "a">>

GlobPaths == SeqsUpTo(PathChars, MaxPathLen) \cup {PathSAB, PathSABC, PathSA, PathBBA}
GlobPatterns ==
    SeqsUpTo(PatternChars, MaxPatternLen)
        \cup {PatGlobstarB, PatStarB, PatStarC, PatUnderS, PatAnyT, PatAnyDepthA}

KeepPaths == {<<>>, <<"a">>, <<"b">>, <<"a", "/", "b">>, PathSA, PathSAB}
KeepPatterns == {<<"a">>, <<"*">>, PatUnderS, PatAnyT}
PatternLists == {Undefined} \cup {Given(l) : l \in SeqsUpTo(KeepPatterns, MaxPatternCount)}

MatcherInit ==
    /\ mc \in [pc : {"glob"}, filePath : GlobPaths, pattern : GlobPatterns]
          \cup [pc : {"keep"}, filePath : KeepPaths,
                includePatterns : PatternLists, excludePatterns : PatternLists]
    /\ fd = Idle
    /\ td = Idle
    /\ ts = Idle
    /\ srv = Idle
    /\ gd = Idle

CallMatchesGlobPattern ==
    /\ mc.pc = "glob"
    /\ mc' = [pc |-> "glob_done", filePath |-> mc.filePath, pattern |-> mc.pattern,
              result |-> matchesGlobPattern(mc.filePath, mc.pattern)]
    /\ UNCHANGED <<fd, td, ts, srv, gd>>

CallFileMatchesPatterns ==
    /\ mc.pc = "keep"
    /\ mc' = [pc |-> "keep_done", filePath |-> mc.filePath,
              includePatterns |-> mc.includePatterns,
              excludePatterns |-> mc.excludePatterns,
              result |-> fileMatchesPatterns(mc.filePath, mc.includePatterns,
                                             mc.excludePatterns)]
    /\ UNCHANGED <<fd, td, ts, srv, gd>>

MatcherNext ==
    \/ CallMatchesGlobPattern
    \/ CallFileMatchesPatterns

SpecMatcher == MatcherInit /\ [][MatcherNext]_vars

(***************************************************************************)
(* Calls of filterDiff                                                     *)
(***************************************************************************)
\* Number the lines of an input.
Numbered(shapes) ==
    [i \in 1..Len(shapes) |-> InputLine(shapes[i].kind, shapes[i].b, i)]

Shape(kind, b) == [kind |-> kind, b |-> b]

NameA == <<"a">>
NameB == <<"b">>

\* A file segment of the filter's inputs: a `diff --git' line whose b-side
\* path is a, b or does not parse, and body lines after it.  filterDiff
\* tells body lines apart by nothing, so they are plain text.
FilterSegments ==
    {<<Shape("git", b)>> \o body :
        b \in {NameA, NameB, <<>>},
        body \in SeqsUpTo({Shape("text", <<>>)}, MaxBodyLen)}

RECURSIVE Concatenations(_, _)
Concatenations(segments, n) ==
    IF n = 0 THEN {<<>>}
    ELSE LET shorter == Concatenations(segments, n - 1)
         IN  shorter \cup {d \o seg : d \in shorter, seg \in segments}

\* Every text has a line, so the input without any file is the empty line.
FilterInputs ==
    {Numbered(preamble \o files) :
        preamble \in {<<>>, <<Shape("text", <<>>)>>},
        files \in Concatenations(FilterSegments, MaxSegments)} \ {<<>>}

\* The option records: the two limits unset, 0 or positive in every
\* combination, one of them negative, and both 1.
FilterOptionRecords ==
    {[includePaths |-> pats[1], excludePaths |-> pats[2],
      maxFiles |-> limits[1], maxTotalLines |-> limits[2]] :
        pats \in {<<Undefined, Undefined>>,
                  <<Given(<<>>), Given(<<>>)>>,
                  <<Given(<<NameA>>), Given(<<NameB>>)>>},
        limits \in ({Undefined, Given(1), Given(2)} \X {Undefined, Given(0), Given(3)})
                   \cup {<<Given(-1), Undefined>>, <<Undefined, Given(-1)>>,
                         <<Given(1), Given(1)>>}}

FilterInit ==
    /\ fd \in [pc : {"call"}, diffContent : FilterInputs,
               filterOptions : FilterOptionRecords]
    /\ mc = Idle
    /\ td = Idle
    /\ ts = Idle
    /\ srv = Idle
    /\ gd = Idle

CallFilterDiff ==
    /\ fd.pc = "call"
    /\ fd' = [pc |-> "done", diffContent |-> fd.diffContent,
              filterOptions |-> fd.filterOptions,
              ret |-> filterDiff(fd.diffContent, fd.filterOptions)]
    /\ UNCHANGED <<mc, td, ts, srv, gd>>

FilterNext == CallFilterDiff

SpecFilter == FilterInit /\ [][FilterNext]_vars

(***************************************************************************)
(* Calls of truncateDiff and truncateFileSection                           *)
(***************************************************************************)
\* The lines of the truncator's inputs: a file header that parses, one that
\* does not, a metadata line (`---'), a hunk header and any other line.
TruncateLineShapes ==
    {Shape("git", NameA), Shape("git", <<>>), Shape("minus", <<>>),
     Shape("hunk", <<>>), Shape("text", <<>>)}

TruncateInputs ==
    {Numbered(shapes) : shapes \in SeqsUpTo(TruncateLineShapes, MaxDiffLines) \ {<<>>}}

TruncateBudgets == {Undefined, Given(-1), Given(0), Given(1), Given(2), Given(3)}

TruncateInit ==
    /\ td \in [pc : {"call"}, diffContent : TruncateInputs,
               maxLinesPerFile : TruncateBudgets]
    /\ mc = Idle
    /\ fd = Idle
    /\ ts = Idle
    /\ srv = Idle
    /\ gd = Idle

CallTruncateDiff ==
    /\ td.pc = "call"
    /\ td' = [pc |-> "done", diffContent |-> td.diffContent,
              maxLinesPerFile |-> td.maxLinesPerFile,
              ret |-> truncateDiff(td.diffContent, td.maxLinesPerFile)]
    /\ UNCHANGED <<mc, fd, ts, srv, gd>>

TruncateNext == CallTruncateDiff

SpecTruncate == TruncateInit /\ [][TruncateNext]_vars

\* What truncateDiff hands to truncateFileSection: a buffer that opens with
\* a hunk header and holds hunk headers and other lines, and a budget of at
\* least 1.
SectionInputs ==
    {Numbered(<<Shape("hunk", <<>>)>> \o rest) :
        rest \in SeqsUpTo({Shape("hunk", <<>>), Shape("text", <<>>)}, MaxSectionLen - 1)}

SectionInit ==
    /\ ts \in [pc : {"call"}, fileLines : SectionInputs, fileName : {NameA},
               maxLines : 1..MaxLinesPerFile]
    /\ mc = Idle
    /\ fd = Idle
    /\ td = Idle
    /\ srv = Idle
    /\ gd = Idle

CallTruncateFileSection ==
    /\ ts.pc = "call"
    /\ ts' = [pc |-> "done", fileLines |-> ts.fileLines, fileName |-> ts.fileName,
              maxLines |-> ts.maxLines,
              ret |-> truncateFileSection(ts.fileLines, ts.fileName, ts.maxLines)]
    /\ UNCHANGED <<mc, fd, td, srv, gd>>

SectionNext == CallTruncateFileSection

SpecSection == SectionInit /\ [][SectionNext]_vars

(***************************************************************************)
(* Calls of filterDiff followed by truncateDiff                            *)
(***************************************************************************)
\* getDiff hands the filtered text to truncateDiff.  A file segment of these
\* inputs is a `diff --git' line alone, or followed by one hunk: a hunk
\* header and content lines.
PipelineSegments ==
    {<<Shape("git", b)>> \o hunk :
        b \in {NameA, NameB, <<>>},
        hunk \in {<<>>} \cup
                 {<<Shape("hunk", <<>>)>> \o content :
                     content \in SeqsUpTo({Shape("text", <<>>)}, MaxHunkLen) \ {<<>>}}}

PipelineInputs ==
    {Numbered(files) :
        files \in Concatenations(PipelineSegments, MaxPipelineSegments)} \ {<<>>}

PipelineBudgets == {Given(0), Given(1), Given(3)}

PipelineInit ==
    /\ fd \in [pc : {"call"}, diffContent : PipelineInputs,
               filterOptions : FilterOptionRecords]
    /\ td = Idle
    /\ mc = Idle
    /\ ts = Idle
    /\ srv = Idle
    /\ gd = Idle

\* truncateDiff called on what filterDiff returned, with any budget.  (getDiff
\* makes this call for the budgets other than 0 and skips it for 0.)
CallTruncateDiffOnFiltered ==
    /\ fd.pc = "done"
    /\ td = Idle
    /\ \E maxLinesPerFile \in PipelineBudgets :
          td' = [pc |-> "done", diffContent |-> fd.ret.filtered,
                 maxLinesPerFile |-> maxLinesPerFile,
                 ret |-> truncateDiff(fd.ret.filtered, maxLinesPerFile)]
    /\ UNCHANGED <<mc, fd, ts, srv, gd>>

PipelineNext ==
    \/ CallFilterDiff
    \/ CallTruncateDiffOnFiltered

SpecPipeline == PipelineInit /\ [][PipelineNext]_vars

(***************************************************************************)
(* Calls of getDiff                                                        *)
(***************************************************************************)
\* The answers of the API: up to MaxGetDiffFiles files, each with one hunk,
\* NameA's of four content lines and NameB's of one.
GetDiffFiles ==
    {<<Shape("git", NameA), Shape("hunk", <<>>), Shape("text", <<>>),
       Shape("text", <<>>), Shape("text", <<>>), Shape("text", <<>>)>>,
     <<Shape("git", NameB), Shape("hunk", <<>>), Shape("text", <<>>)>>}

GetDiffResponses ==
    {Numbered(files) : files \in Concatenations(GetDiffFiles, MaxGetDiffFiles)} \ {<<>>}

\* The filterOptions parameter: left out, or the record the get_diff case
\* builds from the tool arguments.
GetDiffFilterOptions ==
    {Undefined} \cup
    {Given(o) : o \in {r \in FilterOptionRecords :
                          /\ r.includePaths # Given(<<>>)
                          /\ r.maxFiles \in {Undefined, Given(1)}
                          /\ r.maxTotalLines \in {Undefined, Given(3)}}}

GetDiffBudgets == {Undefined, Given(0), Given(1), Given(3), Given(-1)}

\* Values of BITBUCKET_DIFF_MAX_LINES_PER_FILE.
MaxLinesSettings ==
    {Undefined, Given(<<>>), Given(<<"0">>), Given(<<"2">>), Given(<<"x">>),
     Given(<<" ", "2", "x">>), Given(<<"-", "1">>), Given(<<"1", "0">>)}

GetDiffInit ==
    /\ gd \in [pc : {"call"}, paramsGiven : BOOLEAN,
               response : GetDiffResponses,
               maxLinesPerFile : GetDiffBudgets,
               filterOptions : GetDiffFilterOptions,
               setting : MaxLinesSettings]
    /\ mc = Idle
    /\ fd = Idle
    /\ td = Idle
    /\ ts = Idle
    /\ srv = Idle

CallGetDiff ==
    /\ gd.pc = "call"
    /\ gd' = [pc |-> "done", paramsGiven |-> gd.paramsGiven,
              response |-> gd.response,
              maxLinesPerFile |-> gd.maxLinesPerFile,
              filterOptions |-> gd.filterOptions,
              setting |-> gd.setting,
              ret |-> getDiff(gd.paramsGiven, gd.response, gd.maxLinesPerFile,
                              gd.filterOptions, ConfiguredMaxLines(gd.setting))]
    /\ UNCHANGED <<mc, fd, td, ts, srv>>

GetDiffNext == CallGetDiff

SpecGetDiff == GetDiffInit /\ [][GetDiffNext]_vars

(***************************************************************************)
(* filterDiff and truncateDiff, one loop iteration at a time               *)
(***************************************************************************)
\* fd and td hold the arguments, the locals (s), the index of the
\* line the loop reads next (i), how often each line was read (reads) and
\* the value returned (ret, Undefined until the return).

\* A variation: the iteration steps over every other line.
NextLineSkipsOne(i) == i + 2

\* `for (const line of lines)': the iterator moves to the following line.
NextLine(i) == i + 1

StepInputs ==
    {Numbered(shapes) : shapes \in SeqsUpTo(TruncateLineShapes, MaxStepLines) \ {<<>>}}

\* Option records that take the early return, each limit and both limits.
\* The path patterns do not steer the loop; the calls of filterDiff above
\* run the same loop body with them.
StepOptions ==
    {[includePaths |-> Undefined, excludePaths |-> Undefined,
      maxFiles |-> Undefined, maxTotalLines |-> Undefined],
     [includePaths |-> Given(<<>>), excludePaths |-> Given(<<>>),
      maxFiles |-> Given(1), maxTotalLines |-> Undefined],
     [includePaths |-> Undefined, excludePaths |-> Undefined,
      maxFiles |-> Undefined, maxTotalLines |-> Given(3)],
     [includePaths |-> Undefined, excludePaths |-> Undefined,
      maxFiles |-> Given(2), maxTotalLines |-> Given(3)]}

StepBudgets == {Undefined, Given(0), Given(2)}

NotRead(diffContent) == [p \in 1..Len(diffContent) |-> 0]

\* No call has been made yet.
StepsInit ==
    /\ mc = Idle
    /\ fd = Idle
    /\ td = Idle
    /\ ts = Idle
    /\ srv = Idle
    /\ gd = Idle

\* filterDiff is called and runs up to its loop: the early return, or on to
\* the first line.
FilterEnter ==
    /\ fd.pc = "idle"
    /\ td.pc = "idle"
    /\ \E diffContent \in StepInputs, filterOptions \in StepOptions :
          fd' = IF FilterNotNeeded(filterOptions)
                THEN [pc |-> "done", diffContent |-> diffContent,
                      filterOptions |-> filterOptions,
                      s |-> FilterLocals(diffContent, filterOptions),
                      i |-> 1, reads |-> NotRead(diffContent),
                      ret |-> [filtered |-> diffContent,
                               stats |-> [includedFiles |-> 0,
                                          excludedFiles |-> 0,
                                          totalLines |-> Len(Split(diffContent))]]]
                ELSE [pc |-> "loop", diffContent |-> diffContent,
                      filterOptions |-> filterOptions,
                      s |-> FilterLocals(diffContent, filterOptions),
                      i |-> 1, reads |-> NotRead(diffContent),
                      ret |-> Undefined]
    /\ UNCHANGED <<mc, td, ts, srv, gd>>

\* One iteration of the loop of filterDiff.
FilterStep ==
    /\ fd.pc = "loop"
    /\ fd.i <= Len(fd.s.lines)
    /\ fd' = [fd EXCEPT !.s = FilterLine(fd.s, fd.s.lines[fd.i]),
                        !.reads[fd.i] = @ + 1,
                        !.i = NextLine(fd.i)]
    /\ UNCHANGED <<mc, td, ts, srv, gd>>

\* After the loop: the last flush, the summary block and the return.
FilterFinish ==
    /\ fd.pc = "loop"
    /\ fd.i > Len(fd.s.lines)
    /\ LET s == flushCurrentFile(fd.s)
       IN  fd' = [fd EXCEPT !.pc = "done",
                            !.s = s,
                            !.ret = [filtered |-> Join(s.result \o FilterSummary(s)),
                                     stats |-> [includedFiles |-> s.includedFiles,
                                                excludedFiles |-> s.excludedFiles,
                                                totalLines |-> s.totalLines]]]
    /\ UNCHANGED <<mc, td, ts, srv, gd>>

\* truncateDiff is called and runs up to its loop: the early return, or on
\* to the first line.
TruncateEnter ==
    /\ fd.pc = "idle"
    /\ td.pc = "idle"
    /\ \E diffContent \in StepInputs, maxLinesPerFile \in StepBudgets :
          td' = IF TruncateNotNeeded(maxLinesPerFile)
                THEN [pc |-> "done", diffContent |-> diffContent,
                      maxLinesPerFile |-> maxLinesPerFile,
                      s |-> Undefined, i |-> 1, reads |-> NotRead(diffContent),
                      ret |-> diffContent]
                ELSE [pc |-> "loop", diffContent |-> diffContent,
                      maxLinesPerFile |-> maxLinesPerFile,
                      s |-> TruncateLocals(diffContent, maxLinesPerFile),
                      i |-> 1, reads |-> NotRead(diffContent),
                      ret |-> Undefined]
    /\ UNCHANGED <<mc, fd, ts, srv, gd>>

\* One iteration of the loop of truncateDiff.
TruncateStep ==
    /\ td.pc = "loop"
    /\ td.i <= Len(td.s.lines)
    /\ td' = [td EXCEPT !.s = TruncateLine(td.s, td.s.lines[td.i]),
                        !.reads[td.i] = @ + 1,
                        !.i = NextLine(td.i)]
    /\ UNCHANGED <<mc, fd, ts, srv, gd>>

\* After the loop: the last section and the return.
TruncateFinish ==
    /\ td.pc = "loop"
    /\ td.i > Len(td.s.lines)
    /\ LET s == TruncateFlush(td.s)
       IN  td' = [td EXCEPT !.pc = "done", !.s = s, !.ret = Join(s.result)]
    /\ UNCHANGED <<mc, fd, ts, srv, gd>>

StepsNext ==
    \/ FilterEnter
    \/ FilterStep
    \/ FilterFinish
    \/ TruncateEnter
    \/ TruncateStep
    \/ TruncateFinish

\* A call that was made goes on until it returns; whether a call is made is
\* up to the caller.
SpecSteps ==
    /\ StepsInit
    /\ [][StepsNext]_vars
    /\ WF_vars(FilterStep)
    /\ WF_vars(FilterFinish)
    /\ WF_vars(TruncateStep)
    /\ WF_vars(TruncateFinish)

(***************************************************************************)
(* Two callers of filterDiff and truncateDiff at the same time             *)
(*                                                                         *)
(* fd and td map each caller to its call of filterDiff and of              *)
(* truncateDiff.  The functions do not await, so the event loop runs a     *)
(* call from its first line to its return; the steps below interleave the  *)
(* calls line by line, which covers every order the event loop can give.   *)
(***************************************************************************)
CallIds == {"first", "second"}

\* A variation: lines, counters and flags live in one place that every
\* running call uses, as fields of the server object would.
ActivationShared(calls, c) ==
    IF calls["first"].pc = "loop" THEN calls["first"].s ELSE calls[c].s

\* The locals are declared with const and let in the function body: every
\* call has its own.
Activation(calls, c) == calls[c].s

ConcurrentInputs ==
    {Numbered(<<Shape("git", NameA), Shape("hunk", <<>>), Shape("text", <<>>),
                Shape("text", <<>>), Shape("text", <<>>),
                Shape("git", NameB), Shape("hunk", <<>>), Shape("text", <<>>)>>),
     Numbered(<<Shape("git", NameB), Shape("hunk", <<>>), Shape("text", <<>>),
                Shape("git", <<>>), Shape("text", <<>>),
                Shape("git", NameA), Shape("text", <<>>)>>)}

\* Each limit, which sets a sticky flag, and a pattern.
ConcurrentOptions ==
    {[includePaths |-> Undefined, excludePaths |-> Undefined,
      maxFiles |-> Given(1), maxTotalLines |-> Undefined],
     [includePaths |-> Undefined, excludePaths |-> Undefined,
      maxFiles |-> Undefined, maxTotalLines |-> Given(3)],
     [includePaths |-> Undefined, excludePaths |-> Given(<<NameA>>),
      maxFiles |-> Undefined, maxTotalLines |-> Undefined]}

ConcurrentBudgets == {Given(1), Given(3)}

ConcurrentInit ==
    /\ fd = [c \in CallIds |-> Idle]
    /\ td = [c \in CallIds |-> Idle]
    /\ mc = Idle
    /\ ts = Idle
    /\ srv = Idle
    /\ gd = Idle

\* Caller c calls filterDiff.
ConcurrentFilterEnter(c) ==
    /\ fd[c].pc = "idle"
    /\ td[c].pc = "idle"
    /\ \E diffContent \in ConcurrentInputs, filterOptions \in ConcurrentOptions :
          fd' = [fd EXCEPT ![c] =
                    [pc |-> "loop", diffContent |-> diffContent,
                     filterOptions |-> filterOptions,
                     s |-> FilterLocals(diffContent, filterOptions),
                     i |-> 1, ret |-> Undefined]]
    /\ UNCHANGED <<mc, td, ts, srv, gd>>

\* One iteration of the loop of c's call.
ConcurrentFilterStep(c) ==
    /\ fd[c].pc = "loop"
    /\ fd[c].i <= Len(fd[c].s.lines)
    /\ fd' = [fd EXCEPT ![c].s = FilterLine(Activation(fd, c), fd[c].s.lines[fd[c].i]),
                        ![c].i = NextLine(fd[c].i)]
    /\ UNCHANGED <<mc, td, ts, srv, gd>>

\* The last flush, the summary block and the return of c's call.
ConcurrentFilterFinish(c) ==
    /\ fd[c].pc = "loop"
    /\ fd[c].i > Len(fd[c].s.lines)
    /\ LET s == flushCurrentFile(Activation(fd, c))
       IN  fd' = [fd EXCEPT ![c].pc = "done",
                            ![c].s = s,
                            ![c].ret = [filtered |-> Join(s.result \o FilterSummary(s)),
                                        stats |-> [includedFiles |-> s.includedFiles,
                                                   excludedFiles |-> s.excludedFiles,
                                                   totalLines |-> s.totalLines]]]
    /\ UNCHANGED <<mc, td, ts, srv, gd>>

\* Caller c calls truncateDiff.
ConcurrentTruncateEnter(c) ==
    /\ fd[c].pc = "idle"
    /\ td[c].pc = "idle"
    /\ \E diffContent \in ConcurrentInputs, maxLinesPerFile \in ConcurrentBudgets :
          td' = [td EXCEPT ![c] =
                    [pc |-> "loop", diffContent |-> diffContent,
                     maxLinesPerFile |-> maxLinesPerFile,
                     s |-> TruncateLocals(diffContent, maxLinesPerFile),
                     i |-> 1, ret |-> Undefined]]
    /\ UNCHANGED <<mc, fd, ts, srv, gd>>

ConcurrentTruncateStep(c) ==
    /\ td[c].pc = "loop"
    /\ td[c].i <= Len(td[c].s.lines)
    /\ td' = [td EXCEPT ![c].s = TruncateLine(Activation(td, c), td[c].s.lines[td[c].i]),
                        ![c].i = NextLine(td[c].i)]
    /\ UNCHANGED <<mc, fd, ts, srv, gd>>

ConcurrentTruncateFinish(c) ==
    /\ td[c].pc = "loop"
    /\ td[c].i > Len(td[c].s.lines)
    /\ LET s == TruncateFlush(Activation(td, c))
       IN  td' = [td EXCEPT ![c].pc = "done", ![c].s = s, ![c].ret = Join(s.result)]
    /\ UNCHANGED <<mc, fd, ts, srv, gd>>

\* Caller c has used the value returned; nothing of the call is kept.
ConcurrentForget(c) ==
    /\ fd[c].pc = "done" \/ td[c].pc = "done"
    /\ fd' = [fd EXCEPT ![c] = Idle]
    /\ td' = [td EXCEPT ![c] = Idle]
    /\ UNCHANGED <<mc, ts, srv, gd>>

ConcurrentNext ==
    \E c \in CallIds :
        \/ ConcurrentFilterEnter(c)
        \/ ConcurrentFilterStep(c)
        \/ ConcurrentFilterFinish(c)
        \/ ConcurrentTruncateEnter(c)
        \/ ConcurrentTruncateStep(c)
        \/ ConcurrentTruncateFinish(c)
        \/ ConcurrentForget(c)

SpecConcurrent == ConcurrentInit /\ [][ConcurrentNext]_vars

(***************************************************************************)
(* BitbucketServer: constructor and tool handlers                          *)
(*                                                                         *)
(* An environment variable is Undefined when unset, otherwise Given(text). *)
(* A reply records the tool names listed, the error code thrown ("none"    *)
(* when the handler returned), the error text up to the interpolated tool  *)
(* name, and the HTTP methods of the requests the handler sent.            *)
(***************************************************************************)
\* JavaScript's `!x' on an optional string: unset and '' are both falsy.
FalsyString(x) == x = Undefined \/ x.value = ""

\* The tools of the ListTools handler, in the order of its array.
ToolList ==
    <<"list_projects", "list_repositories", "create_pull_request",
      "get_pull_request", "merge_pull_request", "decline_pull_request",
      "add_comment", "add_comment_inline", "get_diff", "get_diff_stats",
      "get_diff_for_files", "get_reviews", "get_activities", "get_comments",
      "search", "get_file_content", "browse_repository">>

readOnlyTools ==
    {"list_projects", "list_repositories", "get_pull_request", "get_diff",
     "get_diff_stats", "get_diff_for_files", "get_reviews", "get_activities",
     "get_comments", "search", "get_file_content", "browse_repository"}

\* The case labels of the switch in the CallTool handler.
SwitchCases ==
    {"list_projects", "list_repositories", "create_pull_request",
     "get_pull_request", "merge_pull_request", "decline_pull_request",
     "add_comment", "add_comment_inline", "get_diff", "get_diff_stats",
     "get_diff_for_files", "get_reviews", "get_activities", "get_comments",
     "search", "get_file_content", "browse_repository"}

\* The cases that test their arguments (isPullRequestInput, getProject, the
\* required-parameter tests of the methods) before they send a request;
\* list_projects and list_repositories send theirs unconditionally.
ChecksArguments == SwitchCases \ {"list_projects", "list_repositories"}

\* The cases whose method sends with post; the others send with get.
PostsRequest ==
    {"create_pull_request", "merge_pull_request", "decline_pull_request",
     "add_comment", "add_comment_inline", "search"}

\* What the Bitbucket API does with a request: it answers, it answers 404,
\* or it fails otherwise with an error list in the response body.
ApiReplies == {"ok", "notFound", "rejected"}

\* A name a client may send that no case of the switch handles.
UnknownTool == "delete_repository"

\* this.config as the constructor reads it from process.env.
ConfigOf(env) ==
    [baseUrl  |-> IF env.BITBUCKET_URL = Undefined THEN "" ELSE env.BITBUCKET_URL.value,
     token    |-> env.BITBUCKET_TOKEN,
     username |-> env.BITBUCKET_USERNAME,
     password |-> env.BITBUCKET_PASSWORD,
     readOnly |-> env.BITBUCKET_READ_ONLY = Given("true")]

\* A variant of CredentialsMissing that demands the token and the pair.
CredentialsMissingEither(config) ==
    \/ FalsyString(config.token)
    \/ ~(~FalsyString(config.username) /\ ~FalsyString(config.password))

\* !this.config.token && !(this.config.username && this.config.password)
CredentialsMissing(config) ==
    /\ FalsyString(config.token)
    /\ ~(~FalsyString(config.username) /\ ~FalsyString(config.password))

\* The error the constructor throws, "none" when it returns.
ConstructorError(config) ==
    IF config.baseUrl = ""
    THEN "BITBUCKET_URL is required"
    ELSE IF CredentialsMissing(config)
    THEN "Either BITBUCKET_TOKEN or BITBUCKET_USERNAME/PASSWORD is required"
    ELSE "none"

\* A variant of RejectedInReadOnly without the negation.
RejectedInReadOnlyIfListed(config, name) ==
    config.readOnly /\ name \in readOnlyTools

\* this.config.readOnly && !readOnlyTools.includes(request.params.name)
RejectedInReadOnly(config, name) ==
    config.readOnly /\ name \notin readOnlyTools

\* .filter(tool => !this.config.readOnly || readOnlyTools.includes(tool.name))
ListedTools(config) ==
    SelectSeq(ToolList, LAMBDA name : ~config.readOnly \/ name \in readOnlyTools)

\* The error a failed request ends in: getDiffForFiles records a 404 and
\* goes on, search turns an error list into InvalidParams, and the catch of
\* the handler turns every other axios error into InternalError.
ApiError(name, api) ==
    IF api = "ok" THEN "none"
    ELSE IF name = "get_diff_for_files" /\ api = "notFound" THEN "none"
    ELSE IF name = "search" /\ api = "rejected" THEN "InvalidParams"
    ELSE "InternalError"

\* The text of that error, up to what is interpolated.
ApiErrorMessage(name, api) ==
    IF ApiError(name, api) = "none" THEN ""
    ELSE IF name = "search" /\ api = "notFound"
    THEN "Search API endpoint not available on this Bitbucket instance"
    ELSE IF name = "search"
    THEN "Search error"
    ELSE "Bitbucket API error"

\* The handler of CallToolRequestSchema.  The text of the result is not
\* modelled here; for get_diff it is what filterDiff and truncateDiff return.
CallToolReply(config, name, argumentsPass, api) ==
    IF RejectedInReadOnly(config, name)
    THEN [request |-> "tools/call", name |-> name, tools |-> <<>>,
          error |-> "MethodNotFound",
          message |-> "is not available in read-only mode", sent |-> {}]
    ELSE IF name \notin SwitchCases
    THEN [request |-> "tools/call", name |-> name, tools |-> <<>>,
          error |-> "MethodNotFound", message |-> "Unknown tool", sent |-> {}]
    ELSE IF name \in ChecksArguments /\ ~argumentsPass
    THEN [request |-> "tools/call", name |-> name, tools |-> <<>>,
          error |-> "InvalidParams", message |-> "", sent |-> {}]
    ELSE [request |-> "tools/call", name |-> name, tools |-> <<>>,
          error |-> ApiError(name, api),
          message |-> ApiErrorMessage(name, api),
          sent |-> IF name \in PostsRequest THEN {"POST"} ELSE {"GET"}]

\* The handler of ListToolsRequestSchema.
ListToolsReply(config) ==
    [request |-> "tools/list", name |-> "", tools |-> ListedTools(config),
     error |-> "none", message |-> "", sent |-> {}]

EnvValues == {Undefined, Given(""), Given("x")}

Environments ==
    [BITBUCKET_URL : EnvValues, BITBUCKET_TOKEN : EnvValues,
     BITBUCKET_USERNAME : EnvValues, BITBUCKET_PASSWORD : EnvValues,
     BITBUCKET_READ_ONLY : {Undefined, Given("true"), Given("false")}]

ServerInit ==
    /\ srv \in {[pc |-> "new", env |-> env, config |-> Undefined,
                 handlers |-> {}, error |-> "none", reply |-> Undefined] :
                    env \in Environments}
    /\ mc = Idle
    /\ fd = Idle
    /\ td = Idle
    /\ ts = Idle
    /\ gd = Idle

\* new BitbucketServer(): the handlers are set up after both tests passed.
Construct ==
    /\ srv.pc = "new"
    /\ LET config == ConfigOf(srv.env)
           error == ConstructorError(config)
       IN  srv' = [srv EXCEPT !.pc = IF error = "none" THEN "serving" ELSE "failed",
                              !.config = config,
                              !.error = error,
                              !.handlers = IF error = "none"
                                           THEN {"ListToolsRequestSchema",
                                                 "CallToolRequestSchema"}
                                           ELSE {}]
    /\ UNCHANGED <<mc, fd, td, ts, gd>>

ListTools ==
    /\ srv.pc = "serving"
    /\ "ListToolsRequestSchema" \in srv.handlers
    /\ srv' = [srv EXCEPT !.reply = ListToolsReply(srv.config)]
    /\ UNCHANGED <<mc, fd, td, ts, gd>>

CallTool ==
    /\ srv.pc = "serving"
    /\ "CallToolRequestSchema" \in srv.handlers
    /\ \E name \in SwitchCases \cup {UnknownTool},
          argumentsPass \in BOOLEAN, api \in ApiReplies :
            srv' = [srv EXCEPT !.reply = CallToolReply(srv.config, name, argumentsPass, api)]
    /\ UNCHANGED <<mc, fd, td, ts, gd>>

ServerNext == Construct \/ ListTools \/ CallTool

SpecServer == ServerInit /\ [][ServerNext]_vars

(***************************************************************************)
(* Claims about the path matcher                                           *)
(***************************************************************************)
\* The glob language read directly off the pattern: `**' is any run of
\* characters, `*' any run without `/', `?' one character other than `/',
\* any other character itself; the whole path against the whole pattern.
RECURSIVE GlobAccepts(_, _)
GlobAccepts(pattern, path) ==
    IF pattern = <<>> THEN path = <<>>
    ELSE IF StartsWith(pattern, <<"*", "*">>)
        THEN \E k \in 0..Len(path) :
                GlobAccepts(SubSeq(pattern, 3, Len(pattern)),
                            SubSeq(path, k + 1, Len(path)))
    ELSE IF Head(pattern) = "*"
        THEN \E k \in 0..Len(path) :
                /\ \A i \in 1..k : path[i] # "/"
                /\ GlobAccepts(Tail(pattern), SubSeq(path, k + 1, Len(path)))
    ELSE IF Head(pattern) = "?"
        THEN /\ path # <<>>
             /\ Head(path) # "/"
             /\ GlobAccepts(Tail(pattern), Tail(path))
    ELSE /\ path # <<>>
         /\ Head(path) = Head(pattern)
         /\ GlobAccepts(Tail(pattern), Tail(path))

SomeMatches(filePath, patterns) ==
    /\ patterns # Undefined
    /\ \E i \in 1..Len(patterns.value) :
            matchesGlobPattern(filePath, patterns.value[i])

\* C3: fileMatchesPatterns returns true exactly when no exclude pattern
\* matches the path and the include list is absent, empty, or has a pattern
\* that matches; a path matching both an include and an exclude pattern is
\* rejected, and with no patterns every path is accepted.
C3_KeepIffNotExcludedAndIncluded ==
    mc.pc = "keep_done" =>
        mc.result =
            (/\ ~SomeMatches(mc.filePath, mc.excludePatterns)
             /\ \/ mc.includePatterns = Undefined
                \/ mc.includePatterns = Given(<<>>)
                \/ SomeMatches(mc.filePath, mc.includePatterns))

\* src/a.ts with include ["src/**"] and exclude ["**/*.ts"] is rejected.
C3_Witness ==
    /\ mc.pc = "keep_done"
    /\ mc.filePath = PathSA
    /\ mc.includePatterns = Given(<<PatUnderS>>)
    /\ mc.excludePatterns = Given(<<PatAnyT>>)
    /\ matchesGlobPattern(PathSA, PatUnderS)
    /\ matchesGlobPattern(PathSA, PatAnyT)
    /\ mc.result = FALSE

\* C4: matchesGlobPattern is an anchored whole-path match with `*' a run
\* without `/', `**' any run, `?' one character other than `/' and every
\* other pattern character literal; src/**/b.ts and src/*/b.ts match
\* src/a/b.ts, and src/*/c.ts does not match src/a/b/c.ts.
C4_GlobSemantics ==
    mc.pc = "glob_done" =>
        /\ mc.result = GlobAccepts(mc.pattern, mc.filePath)
        /\ (mc.filePath = PathSAB /\ mc.pattern \in {PatGlobstarB, PatStarB})
               => mc.result = TRUE
        /\ (mc.filePath = PathSABC /\ mc.pattern = PatStarC) => mc.result = FALSE

\* The single star is asked to cross a `/' and refuses.
C4_Witness ==
    /\ mc.pc = "glob_done"
    /\ mc.filePath = PathSABC
    /\ mc.pattern = PatStarC
    /\ mc.result = FALSE

(***************************************************************************)
\* pattern is **/NAME for a file name NAME written without wildcards.
IsAnyDepthName(pattern) ==
    /\ Len(pattern) > 3
    /\ SubSeq(pattern, 1, 3) = <<"*", "*", "/">>
    /\ \A i \in 4..Len(pattern) : pattern[i] \notin {"*", "?", "/"}

NameOf(pattern) == SubSeq(pattern, 4, Len(pattern))

\* path is the file NAME in some directory.
InSomeDirectory(path, name) ==
    /\ Len(path) > Len(name)
    /\ SubSeq(path, Len(path) - Len(name), Len(path)) = <<"/">> \o name

\* C30: a pattern **/NAME matches the file NAME at every directory depth,
\* the file NAME at the root of the repository, whose path has no `/',
\* included.
C30_AnyDepthNameMatchesRootFile ==
    (mc.pc = "glob_done" /\ IsAnyDepthName(mc.pattern)) =>
        /\ mc.filePath = NameOf(mc.pattern) => mc.result = TRUE
        /\ InSomeDirectory(mc.filePath, NameOf(mc.pattern)) => mc.result = TRUE

\* What holds: **/NAME matches exactly the paths that end with /NAME.
C30_AnyDepthNameNeedsASlash ==
    (mc.pc = "glob_done" /\ IsAnyDepthName(mc.pattern)) =>
        mc.result = InSomeDirectory(mc.filePath, NameOf(mc.pattern))

(***************************************************************************)
(* Claims about filterDiff                                                 *)
(***************************************************************************)
Min(a, b) == IF a <= b THEN a ELSE b

GitPositions(d) == {p \in 1..Len(d) : IsFileHeader(d[p])}

\* The file segment line p of d belongs to: the number of `diff --git'
\* lines up to p, 0 for the lines before the first one.
SegmentOf(d, p) == Cardinality({q \in GitPositions(d) : q <= p})

\* The `diff --git' line that opens the segment of line p: the last one up
\* to p.
SegmentStart(d, p) ==
    LET before == {q \in 1..p : IsFileHeader(d[q])}
    IN  CHOOSE q \in before : \A r \in before : r <= q

InOutput(out, p) == \E j \in 1..Len(out) : out[j].pos = p

\* The lines of the segments whose `diff --git' line is in the output.
IncludedSegmentLines(d, out) ==
    {p \in 1..Len(d) :
        /\ \E q \in 1..p : IsFileHeader(d[q])
        /\ InOutput(out, SegmentStart(d, p))}

AllSegmentsPass(d, opts) ==
    \A p \in GitPositions(d) :
        fileMatchesPatterns(HeaderMatch(d[p]), opts.includePaths, opts.excludePaths)

OnlyMaxFilesLimits(opts) ==
    /\ opts.maxFiles # Undefined
    /\ opts.maxFiles.value >= 1
    /\ ~Truthy(opts.maxTotalLines)

\* C1: with maxFiles = k >= 1 over a diff whose N segments all pass the path
\* predicate, exactly the first min(k, N) segments are in the output and
\* every later one is absent from it, with includedFiles = min(k, N) and
\* excludedFiles = N - min(k, N).
C1_MaxFilesKeepsFirstK ==
    (/\ fd.pc = "done"
     /\ OnlyMaxFilesLimits(fd.filterOptions)
     /\ AllSegmentsPass(fd.diffContent, fd.filterOptions))
    => LET d == fd.diffContent
           N == Cardinality(GitPositions(d))
           m == Min(fd.filterOptions.maxFiles.value, N)
       IN  /\ fd.ret.stats.includedFiles = m
           /\ fd.ret.stats.excludedFiles = N - m
           /\ \A p \in 1..Len(d) :
                 SegmentOf(d, p) >= 1 =>
                     (InOutput(fd.ret.filtered, p) <=> SegmentOf(d, p) <= m)

\* The counts of C1 and the `diff --git' lines kept, without a word on the
\* other lines of the segments.
C1_CountsAndHeaders ==
    (/\ fd.pc = "done"
     /\ OnlyMaxFilesLimits(fd.filterOptions)
     /\ AllSegmentsPass(fd.diffContent, fd.filterOptions))
    => LET d == fd.diffContent
           N == Cardinality(GitPositions(d))
           m == Min(fd.filterOptions.maxFiles.value, N)
       IN  /\ fd.ret.stats.includedFiles = m
           /\ fd.ret.stats.excludedFiles = N - m
           /\ \A p \in GitPositions(d) :
                 InOutput(fd.ret.filtered, p) <=> SegmentOf(d, p) <= m

\* C2 as stated: the line budget adds up content lines only, so totalLines
\* is the number of lines of the included files that are neither the
\* `diff --git' line nor a metadata line.
C2_BudgetCountsContentOnly ==
    (fd.pc = "done" /\ ~FilterNotNeeded(fd.filterOptions))
    => LET d == fd.diffContent
       IN  fd.ret.stats.totalLines =
               Cardinality({p \in IncludedSegmentLines(d, fd.ret.filtered) :
                               ~IsFileHeader(d[p]) /\ ~IsFileMetadata(d[p])})

\* Three segments of two lines each, a parsable header and one line after
\* it, that all pass the path predicate.
ThreeFilesOfTwoLines(d, opts) ==
    /\ Len(d) = 6
    /\ GitPositions(d) = {1, 3, 5}
    /\ \A p \in {1, 3, 5} : HeaderMatch(d[p]) # <<>>
    /\ AllSegmentsPass(d, opts)

\* C2 (amended): the line budget adds up every line buffered for a file,
\* the `diff --git' line included (for a header that parses, the whole
\* segment; for one that does not, the header line alone): three accepted
\* files of two lines each with maxTotalLines = 3 give one included file,
\* totalLines = 2 and excludedFiles = 2.
C2_BudgetCountsEveryBufferedLine ==
    (fd.pc = "done" /\ ~FilterNotNeeded(fd.filterOptions))
    => LET d == fd.diffContent
           opts == fd.filterOptions
       IN  /\ fd.ret.stats.totalLines =
                  Cardinality({p \in IncludedSegmentLines(d, fd.ret.filtered) :
                                  \/ IsFileHeader(d[p])
                                  \/ HeaderMatch(d[SegmentStart(d, p)]) # <<>>})
           /\ (/\ ThreeFilesOfTwoLines(d, opts)
               /\ opts.maxFiles = Undefined
               /\ opts.maxTotalLines = Given(3))
              => /\ fd.ret.stats.includedFiles = 1
                 /\ fd.ret.stats.totalLines = 2
                 /\ fd.ret.stats.excludedFiles = 2

C2_Witness ==
    /\ fd.pc = "done"
    /\ ThreeFilesOfTwoLines(fd.diffContent, fd.filterOptions)
    /\ fd.filterOptions.maxFiles = Undefined
    /\ fd.filterOptions.maxTotalLines = Given(3)
    /\ fd.ret.stats.totalLines = 2
    /\ fd.ret.stats.excludedFiles = 2

NoFilterOptionSet(opts) ==
    /\ opts.includePaths \in {Undefined, Given(<<>>)}
    /\ opts.excludePaths \in {Undefined, Given(<<>>)}
    /\ opts.maxFiles = Undefined
    /\ opts.maxTotalLines = Undefined

\* C5: with no filter option set filterDiff returns the input text as it
\* is, with includedFiles = 0, excludedFiles = 0 and totalLines the number
\* of lines of the input.
C5_NoOptionReturnsInput ==
    (fd.pc = "done" /\ NoFilterOptionSet(fd.filterOptions))
    => /\ fd.ret.filtered = fd.diffContent
       /\ fd.ret.stats = [includedFiles |-> 0, excludedFiles |-> 0,
                          totalLines |-> Len(fd.diffContent)]

\* An input of three files, one with a header that does not parse, comes
\* back untouched and counted as no file.
C5_Witness ==
    /\ fd.pc = "done"
    /\ NoFilterOptionSet(fd.filterOptions)
    /\ Cardinality(GitPositions(fd.diffContent)) = 3
    /\ \E p \in GitPositions(fd.diffContent) : HeaderMatch(fd.diffContent[p]) = <<>>
    /\ fd.ret.filtered = fd.diffContent
    /\ fd.ret.stats.includedFiles = 0

(***************************************************************************)
(* Claims about filterDiff: segments, order, limits, summary               *)
(***************************************************************************)
\* The lines of the file segment that `diff --git' line g opens.
SegmentLines(d, g) == {p \in g..Len(d) : SegmentStart(d, p) = g}

AllOrNone(d, out, g) ==
    \/ \A p \in SegmentLines(d, g) : InOutput(out, p)
    \/ \A p \in SegmentLines(d, g) : ~InOutput(out, p)

\* C12: every file segment, the `diff --git' line and the lines up to the
\* next one or to the end of the input, is in the output with all of its
\* lines or with none, also when its header line does not parse.
C12_SegmentsAreAtomic ==
    fd.pc = "done"
    => \A g \in GitPositions(fd.diffContent) :
          AllOrNone(fd.diffContent, fd.ret.filtered, g)

\* The same for the segments whose header line parses.
C12_ParsedSegmentsAreAtomic ==
    fd.pc = "done"
    => \A g \in GitPositions(fd.diffContent) :
          HeaderMatch(fd.diffContent[g]) # <<>>
              => AllOrNone(fd.diffContent, fd.ret.filtered, g)

(***************************************************************************)
\* The lines of out that come from the input are lines of d, each once and
\* in the order of d.
InputOrderKept(d, out) ==
    /\ \A j \in 1..Len(out) :
          out[j].pos > 0 => (out[j].pos <= Len(d) /\ out[j] = d[out[j].pos])
    /\ \A i, j \in 1..Len(out) :
          (i < j /\ out[i].pos > 0 /\ out[j].pos > 0) => out[i].pos < out[j].pos

AllHeadersParse(d) == \A g \in GitPositions(d) : HeaderMatch(d[g]) # <<>>

\* C13: the output lines other than the summary block are a subsequence of
\* the input lines, in the order of the input, for every input and every
\* option record.
C13_FilterKeepsOrder ==
    fd.pc = "done" => InputOrderKept(fd.diffContent, fd.ret.filtered)

\* The same for the inputs whose header lines all parse.
C13_FilterKeepsOrderOfParsed ==
    (fd.pc = "done" /\ AllHeadersParse(fd.diffContent))
    => InputOrderKept(fd.diffContent, fd.ret.filtered)

(***************************************************************************)
IsNegative(limit) == limit # Undefined /\ limit.value < 0

\* C15: a negative limit is no limit: filterDiff with maxFiles < 0 or
\* maxTotalLines < 0 returns what it returns with that limit unset, so it
\* excludes no file on account of it.
C15_NegativeLimitIsUnlimited ==
    fd.pc = "done"
    => LET d == fd.diffContent
           opts == fd.filterOptions
       IN  /\ IsNegative(opts.maxFiles)
                  => fd.ret = filterDiff(d, [opts EXCEPT !.maxFiles = Undefined])
           /\ IsNegative(opts.maxTotalLines)
                  => fd.ret = filterDiff(d, [opts EXCEPT !.maxTotalLines = Undefined])

\* The part of C15 about truncateDiff: a negative maxLinesPerFile truncates
\* nothing.
C15_NegativeBudgetTruncatesNothing ==
    (td.pc = "done" /\ IsNegative(td.maxLinesPerFile))
    => td.ret = td.diffContent

(***************************************************************************)
\* The lines of out that the code made up.
SyntheticLines(out) == SelectSeq(out, LAMBDA l : l.pos = 0)

CutoffWords == {"Reached maxFiles limit of", "Reached maxTotalLines limit of"}

\* C16: when the early return is not taken, the output ends with the
\* summary block if and only if stats.excludedFiles > 0; the block is a
\* blank line, `DIFF FILTERED: n files excluded' with n = excludedFiles,
\* the cutoff lines, and `Showing i files, l lines' with i = includedFiles
\* and l = totalLines; with no file excluded no line is made up.
C16_SummaryIffExcluded ==
    (fd.pc = "done" /\ ~FilterNotNeeded(fd.filterOptions))
    => LET out == fd.ret.filtered
           stats == fd.ret.stats
           made == SyntheticLines(out)
       IN  IF stats.excludedFiles > 0
           THEN /\ Len(made) >= 3
                /\ SubSeq(out, Len(out) - Len(made) + 1, Len(out)) = made
                /\ made[1] = BlankLine
                /\ made[2] = SynLine(<<"DIFF FILTERED", stats.excludedFiles>>)
                /\ made[Len(made)] =
                       SynLine(<<"Showing", stats.includedFiles, stats.totalLines>>)
                /\ \A k \in 3..Len(made)-1 : made[k].syn[1] \in CutoffWords
           ELSE made = <<>>

\* Two files kept and one excluded: the block says 1 excluded, 2 shown.
C16_Witness ==
    /\ fd.pc = "done"
    /\ ~FilterNotNeeded(fd.filterOptions)
    /\ fd.ret.stats.excludedFiles = 1
    /\ fd.ret.stats.includedFiles = 2
    /\ \E j \in 1..Len(fd.ret.filtered) :
          fd.ret.filtered[j] = SynLine(<<"DIFF FILTERED", 1>>)
    /\ fd.ret.filtered[Len(fd.ret.filtered)] =
           SynLine(<<"Showing", 2, fd.ret.stats.totalLines>>)

(***************************************************************************)
HasCutoffLine(out, words) ==
    \E j \in 1..Len(out) :
        out[j].pos = 0 /\ Len(out[j].syn) = 2 /\ out[j].syn[1] = words

BothCutoffLines(out) ==
    /\ HasCutoffLine(out, "Reached maxFiles limit of")
    /\ HasCutoffLine(out, "Reached maxTotalLines limit of")

\* C17 as stated: for a call about to be made there are an input and an
\* option record with maxFiles and maxTotalLines both set for which the
\* summary block has both the `Reached maxFiles limit' line and the
\* `Reached maxTotalLines limit' line.
C17_BothCutoffsReportable ==
    fd.pc = "call"
    => \E d \in FilterInputs, opts \in FilterOptionRecords :
          /\ Truthy(opts.maxFiles)
          /\ Truthy(opts.maxTotalLines)
          /\ BothCutoffLines(filterDiff(d, opts).filtered)

\* C17 (amended): at most one cutoff fires in a call.  The first file that
\* reaches a limit sets its flag, and every later file is excluded without
\* being held against either limit, so no summary block has both cutoff
\* lines.
C17_AtMostOneCutoffReported ==
    fd.pc = "done" => ~BothCutoffLines(fd.ret.filtered)

\* Both limits are 1 and three files pass the patterns.  The first, of two
\* lines, reaches the line limit; the second, of one line, and the third
\* are excluded after it although no file was included yet, and only the
\* line limit is reported.
C17_Witness ==
    /\ fd.pc = "done"
    /\ fd.filterOptions.maxFiles = Given(1)
    /\ fd.filterOptions.maxTotalLines = Given(1)
    /\ AllSegmentsPass(fd.diffContent, fd.filterOptions)
    /\ AllHeadersParse(fd.diffContent)
    /\ GitPositions(fd.diffContent) = {1, 3, 4}
    /\ fd.ret.stats = [includedFiles |-> 0, excludedFiles |-> 3, totalLines |-> 0]
    /\ HasCutoffLine(fd.ret.filtered, "Reached maxTotalLines limit of")
    /\ ~HasCutoffLine(fd.ret.filtered, "Reached maxFiles limit of")

(***************************************************************************)
\* The segments that pass the path patterns, by their `diff --git' lines.
PassingSegments(d, opts) ==
    {g \in GitPositions(d) :
        fileMatchesPatterns(HeaderMatch(d[g]), opts.includePaths, opts.excludePaths)}

RECURSIVE LinesOfSegments(_, _)
LinesOfSegments(d, segments) ==
    IF segments = {} THEN 0
    ELSE LET g == CHOOSE x \in segments : TRUE
         IN  Cardinality(SegmentLines(d, g)) + LinesOfSegments(d, segments \ {g})

\* Segment g passes the patterns and, added to the passing segments before
\* it, goes above maxTotalLines.
Overflows(d, opts, g) ==
    /\ g \in PassingSegments(d, opts)
    /\ LinesOfSegments(d, {h \in PassingSegments(d, opts) : h < g})
           + Cardinality(SegmentLines(d, g)) > opts.maxTotalLines.value

StickyLineCutoff(d, opts, out) ==
    \A g \in GitPositions(d) :
        Overflows(d, opts, g) => \A p \in g..Len(d) : ~InOutput(out, p)

\* C23: with maxTotalLines >= 1 (and no maxFiles cutoff before it), the
\* first segment that would push the running total above maxTotalLines is
\* excluded together with every later segment, however small; and
\* stats.totalLines <= maxTotalLines in every result.
C23_MaxTotalLinesCutoffIsSticky ==
    (fd.pc = "done" /\ fd.filterOptions.maxTotalLines # Undefined
                    /\ fd.filterOptions.maxTotalLines.value >= 1) =>
        /\ fd.filterOptions.maxFiles = Undefined =>
               StickyLineCutoff(fd.diffContent, fd.filterOptions, fd.ret.filtered)
        /\ fd.ret.stats.totalLines <= fd.filterOptions.maxTotalLines.value

\* The same for the inputs whose header lines all parse.
C23_StickyForParsedHeaders ==
    (fd.pc = "done" /\ fd.filterOptions.maxTotalLines # Undefined
                    /\ fd.filterOptions.maxTotalLines.value >= 1
                    /\ AllHeadersParse(fd.diffContent)) =>
        /\ fd.filterOptions.maxFiles = Undefined =>
               StickyLineCutoff(fd.diffContent, fd.filterOptions, fd.ret.filtered)
        /\ fd.ret.stats.totalLines <= fd.filterOptions.maxTotalLines.value

(***************************************************************************)
UnparsedSegments(d) == {g \in GitPositions(d) : HeaderMatch(d[g]) = <<>>}

KeptSegments(d, out) == {g \in GitPositions(d) : InOutput(out, g)}

\* C24: a segment whose `diff --git' line does not parse goes through the
\* evaluation of any segment under the file name "": it is kept only if the
\* path predicate accepts "", it is kept or dropped with all of its lines,
\* and the limits count it with its full number of lines, so that
\* stats.totalLines is the number of lines of the kept segments.
C24_UnparsedHeaderIsEvaluatedAsEmptyName ==
    (fd.pc = "done" /\ ~FilterNotNeeded(fd.filterOptions)) =>
        /\ \A g \in UnparsedSegments(fd.diffContent) :
              /\ InOutput(fd.ret.filtered, g) =>
                     fileMatchesPatterns(<<>>, fd.filterOptions.includePaths,
                                         fd.filterOptions.excludePaths)
              /\ AllOrNone(fd.diffContent, fd.ret.filtered, g)
        /\ UnparsedSegments(fd.diffContent) # {} =>
               fd.ret.stats.totalLines =
                   LinesOfSegments(fd.diffContent,
                                   KeptSegments(fd.diffContent, fd.ret.filtered))

\* What does hold: the predicate is applied to "", and the header line
\* alone is what the limits count.
C24_UnparsedHeaderAloneIsEvaluated ==
    (fd.pc = "done" /\ ~FilterNotNeeded(fd.filterOptions)) =>
        /\ \A g \in UnparsedSegments(fd.diffContent) :
              InOutput(fd.ret.filtered, g) =>
                  fileMatchesPatterns(<<>>, fd.filterOptions.includePaths,
                                      fd.filterOptions.excludePaths)
        /\ AllHeadersParse(fd.diffContent) =>
               fd.ret.stats.totalLines =
                   LinesOfSegments(fd.diffContent,
                                   KeptSegments(fd.diffContent, fd.ret.filtered))

(***************************************************************************)
\* C28: when filterDiff does not take the early return, includedFiles +
\* excludedFiles is the number of `diff --git' lines of the input and
\* totalLines is the number of lines of the included segments, whatever
\* mix of included, pattern-excluded and cut-off segments the input has.
C28_EverySegmentCountedOnce ==
    (fd.pc = "done" /\ ~FilterNotNeeded(fd.filterOptions)) =>
        /\ fd.ret.stats.includedFiles + fd.ret.stats.excludedFiles
               = Cardinality(GitPositions(fd.diffContent))
        /\ fd.ret.stats.includedFiles
               = Cardinality(KeptSegments(fd.diffContent, fd.ret.filtered))
        /\ fd.ret.stats.totalLines
               = LinesOfSegments(fd.diffContent,
                                 KeptSegments(fd.diffContent, fd.ret.filtered))

\* The two file counts are right for every input; the line count is right
\* when every header line parses.
C28_FileCountsAndParsedLineCount ==
    (fd.pc = "done" /\ ~FilterNotNeeded(fd.filterOptions)) =>
        /\ fd.ret.stats.includedFiles + fd.ret.stats.excludedFiles
               = Cardinality(GitPositions(fd.diffContent))
        /\ fd.ret.stats.includedFiles
               = Cardinality(KeptSegments(fd.diffContent, fd.ret.filtered))
        /\ AllHeadersParse(fd.diffContent) =>
               fd.ret.stats.totalLines
                   = LinesOfSegments(fd.diffContent,
                                     KeptSegments(fd.diffContent, fd.ret.filtered))

(***************************************************************************)
(* Claims about truncateDiff                                               *)
(***************************************************************************)
IsMarkerLine(line) ==
    line.pos = 0 /\ Len(line.syn) >= 1 /\ line.syn[1] = "FILE TRUNCATED"

\* The content lines of the file that `diff --git' line g opens: the lines
\* of its segment after its first hunk header that are not hunk headers.
ContentLinesOfFile(d, g) ==
    {p \in 1..Len(d) :
        /\ SegmentOf(d, p) = SegmentOf(d, g)
        /\ ~IsHunkHeader(d[p])
        /\ \E h \in g..p : IsHunkHeader(d[h])}

\* A truncation marker stands in the part of the output that follows the
\* `diff --git' line g and precedes the next one.
MarkerForFile(out, g) ==
    \E j \in 1..Len(out) :
        /\ IsMarkerLine(out[j])
        /\ \E i \in 1..j :
              /\ out[i].pos = g
              /\ \A k \in i+1..j : ~IsFileHeader(out[k])

\* C6: truncateDiff(d, n) returns d unchanged whenever n <= 0 or n is unset.
C6_NoBudgetReturnsInput ==
    (/\ td.pc = "done"
     /\ \/ td.maxLinesPerFile = Undefined
        \/ td.maxLinesPerFile.value <= 0)
    => td.ret = td.diffContent

\* A file of four content lines, which every budget from 1 to 3 would cut,
\* comes back whole under the budget 0.
C6_Witness ==
    /\ td.pc = "done"
    /\ td.maxLinesPerFile = Given(0)
    /\ \E g \in GitPositions(td.diffContent) :
          /\ Cardinality(ContentLinesOfFile(td.diffContent, g)) = 4
          /\ \A p \in ContentLinesOfFile(td.diffContent, g) :
                td.diffContent[p].kind = "text"
    /\ td.ret = td.diffContent

\* C7: for every maxLinesPerFile >= 1, a file with exactly maxLinesPerFile
\* content lines is emitted without a truncation marker and with all its
\* content lines, and a file with maxLinesPerFile + 1 content lines gets
\* the marker block.
C7_ThresholdIsExact ==
    (/\ td.pc = "done"
     /\ td.maxLinesPerFile # Undefined
     /\ td.maxLinesPerFile.value >= 1)
    => \A g \in GitPositions(td.diffContent) :
          LET content == ContentLinesOfFile(td.diffContent, g)
              n == td.maxLinesPerFile.value
          IN  /\ Cardinality(content) = n
                  => /\ ~MarkerForFile(td.ret, g)
                     /\ \A p \in content : InOutput(td.ret, p)
              /\ Cardinality(content) = n + 1 => MarkerForFile(td.ret, g)

\* The threshold inside truncateFileSection alone, on the lines truncateDiff
\* buffered: exactly maxLines lines that are no hunk headers come back as
\* they are, one more brings the marker.
C7_SectionThreshold ==
    ts.pc = "done"
    => LET content == SelectSeq(ts.fileLines, LAMBDA l : ~IsHunkHeader(l))
       IN  /\ Len(content) = ts.maxLines => ts.ret = ts.fileLines
           /\ Len(content) = ts.maxLines + 1
                  => \E j \in 1..Len(ts.ret) : IsMarkerLine(ts.ret[j])

(***************************************************************************)
\* The lines of out that come from the input stand in the order of the
\* input.
RelativeOrderKept(out) ==
    \A i, j \in 1..Len(out) :
        (i < j /\ out[i].pos > 0 /\ out[j].pos > 0) => out[i].pos <= out[j].pos

\* C14: in the output of truncateDiff the lines taken from the input stand
\* in the same relative order as in the input, for every input, files with
\* several hunks included, and every maxLinesPerFile >= 1.
C14_TruncateKeepsOrder ==
    (/\ td.pc = "done"
     /\ td.maxLinesPerFile # Undefined
     /\ td.maxLinesPerFile.value >= 1)
    => RelativeOrderKept(td.ret)

\* Line p follows a hunk header with no `diff --git' line in between.
InsideHunk(d, p) ==
    \E h \in 1..p-1 : IsHunkHeader(d[h]) /\ \A q \in h..p : ~IsFileHeader(d[q])

\* The same when no file has a second hunk header and no line inside a hunk
\* starts like a metadata line.
C14_OrderKeptWithOneHunk ==
    (/\ td.pc = "done"
     /\ td.maxLinesPerFile # Undefined
     /\ td.maxLinesPerFile.value >= 1
     /\ \A p \in 1..Len(td.diffContent) :
           InsideHunk(td.diffContent, p)
               => ~IsHunkHeader(td.diffContent[p]) /\ ~IsFileMetadata(td.diffContent[p]))
    => RelativeOrderKept(td.ret)

(***************************************************************************)
EveryFileWithinBudget(d, n) ==
    \A g \in GitPositions(d) : Cardinality(ContentLinesOfFile(d, g)) <= n

\* C26: truncateDiff(d, n) with n >= 1 returns d unchanged whenever every
\* file of d has at most n content lines, whatever the content lines are,
\* lines that start with `+++' or `---' included.
C26_WithinBudgetReturnsInput ==
    (/\ td.pc = "done"
     /\ td.maxLinesPerFile # Undefined
     /\ td.maxLinesPerFile.value >= 1
     /\ IsFileHeader(td.diffContent[1])
     /\ EveryFileWithinBudget(td.diffContent, td.maxLinesPerFile.value))
    => td.ret = td.diffContent

\* The same for the inputs that have no line starting with `index ', `+++'
\* or `---' inside a hunk.
C26_WithinBudgetWithoutMetadataInHunks ==
    (/\ td.pc = "done"
     /\ td.maxLinesPerFile # Undefined
     /\ td.maxLinesPerFile.value >= 1
     /\ IsFileHeader(td.diffContent[1])
     /\ EveryFileWithinBudget(td.diffContent, td.maxLinesPerFile.value)
     /\ \A p \in 1..Len(td.diffContent) :
           IsFileMetadata(td.diffContent[p]) => ~InsideHunk(td.diffContent, p))
    => td.ret = td.diffContent

(***************************************************************************)
(* Claims about truncateFileSection                                        *)
(***************************************************************************)
SectionContent == SelectSeq(ts.fileLines, LAMBDA l : ~IsHunkHeader(l))
SectionHeaders == SelectSeq(ts.fileLines, IsHunkHeader)
HeadWindow == (ts.maxLines * 3) \div 5
TailWindow == (ts.maxLines * 2) \div 5
SectionTruncated == ts.pc = "done" /\ Len(SectionContent) > ts.maxLines

\* The lines of the section in the output, without the lines made up.
KeptLines(out) == SelectSeq(out, LAMBDA l : l.pos > 0)

\* The last k elements of a sequence.
LastOf(seq, k) == SubSeq(seq, Len(seq) - k + 1, Len(seq))

\* The position of the last made-up line of the output.
LastSynthetic(out) ==
    CHOOSE j \in 1..Len(out) :
        out[j].pos = 0 /\ \A k \in j+1..Len(out) : out[k].pos > 0

\* C8: for a truncated file the output is every hunk-header line, then the
\* first floor(0.6*maxLines) content lines, then the marker block, then the
\* last floor(0.4*maxLines) content lines; the content lines strictly
\* between the two windows are not in the output.
C8_HeadersHeadMarkerTail ==
    SectionTruncated
    => LET out == ts.ret
           before == Len(SectionHeaders) + HeadWindow
       IN  /\ KeptLines(out) = SectionHeaders
                                   \o SubSeq(SectionContent, 1, HeadWindow)
                                   \o LastOf(SectionContent, TailWindow)
           /\ \E j \in 1..Len(out) : IsMarkerLine(out[j])
           /\ \A j \in 1..Len(out) :
                 out[j].pos = 0 <=> (j > before /\ j <= Len(out) - TailWindow)
           /\ \A i \in HeadWindow+1..Len(SectionContent)-TailWindow :
                 ~InOutput(out, SectionContent[i].pos)

\* C9: for every maxLines >= 1 and every truncated file, the content lines
\* after the marker block are exactly the last floor(0.4*maxLines) content
\* lines (none when that is 0), and the number of content lines missing
\* from the output is contentCount - headWindow - tailWindow, the hidden
\* count the marker states.
C9_TailIsLastWindow ==
    SectionTruncated
    => LET out == ts.ret
           hidden == Len(SectionContent) - HeadWindow - TailWindow
       IN  /\ SubSeq(out, LastSynthetic(out) + 1, Len(out))
                  = LastOf(SectionContent, TailWindow)
           /\ Cardinality({i \in 1..Len(SectionContent) :
                              ~InOutput(out, SectionContent[i].pos)}) = hidden
           /\ \E j \in 1..Len(out) : IsMarkerLine(out[j]) /\ out[j].syn[2] = hidden

\* The content lines of the section in the output, repeated ones included.
EmittedContent(out) == SelectSeq(out, LAMBDA l : l.pos > 0 /\ ~IsHunkHeader(l))

\* C29: for every maxLines >= 1, truncateFileSection emits at most maxLines
\* content lines of a file it truncates (the head window and the tail window
\* together, no line twice), and the section it returns is never longer
\* than the section it was given.
C29_TruncationRespectsBudget ==
    ts.pc = "done" =>
        /\ SectionTruncated =>
               /\ Len(EmittedContent(ts.ret)) <= ts.maxLines
               /\ \A i, j \in 1..Len(ts.ret) :
                     (i # j /\ ts.ret[i].pos > 0) => ts.ret[i].pos # ts.ret[j].pos
        /\ Len(ts.ret) <= Len(ts.fileLines)

\* What holds: from maxLines = 3 on the two windows are disjoint and within
\* the budget, and a truncated section is at most five lines longer than
\* the section given; a section within the budget comes back as it is.
C29_BudgetKeptFromThree ==
    ts.pc = "done" =>
        /\ (SectionTruncated /\ ts.maxLines >= 3) =>
               /\ Len(EmittedContent(ts.ret)) = HeadWindow + TailWindow
               /\ Len(EmittedContent(ts.ret)) <= ts.maxLines
               /\ \A i, j \in 1..Len(ts.ret) :
                     (i # j /\ ts.ret[i].pos > 0) => ts.ret[i].pos # ts.ret[j].pos
               /\ Len(ts.ret) <= Len(ts.fileLines) + 5
        /\ ~SectionTruncated => ts.ret = ts.fileLines

\* C10 as stated: a truncated file comes back as (hunk headers) +
\* headWindow + tailWindow + 6 lines.
C10_LengthWithSix ==
    SectionTruncated
    => Len(ts.ret) = Len(SectionHeaders) + HeadWindow + TailWindow + 6

\* C10 (amended): a truncated file comes back as (hunk headers) +
\* headWindow + (lines after the marker) + 5 lines, the 5 being three
\* bracketed lines between two blank ones; the lines after the marker are
\* tailWindow lines when tailWindow >= 1 and all the content lines when
\* tailWindow = 0.
C10_LengthWithFive ==
    SectionTruncated
    => LET after == IF TailWindow = 0 THEN Len(SectionContent) ELSE TailWindow
       IN  /\ Len(ts.ret) = Len(SectionHeaders) + HeadWindow + after + 5
           /\ Cardinality({j \in 1..Len(ts.ret) : ts.ret[j].pos = 0}) = 5

\* Three hunk headers and seven content lines under maxLines = 5: 3 + 3 + 2
\* + 5 lines come back.
C10_Witness ==
    /\ SectionTruncated
    /\ ts.maxLines = 5
    /\ Len(SectionHeaders) = 3
    /\ Len(SectionContent) = 7
    /\ Len(ts.ret) = 13

(***************************************************************************)
(* Claims about filterDiff followed by truncateDiff                        *)
(***************************************************************************)
\* C11: for every diff text and every filter option record, truncateDiff
\* with maxLinesPerFile = 0 applied to what filterDiff returned as filtered
\* gives back exactly that text.
C11_UnlimitedBudgetKeepsFiltered ==
    (fd.pc = "done" /\ td.pc = "done" /\ td.maxLinesPerFile = Given(0))
    => /\ td.diffContent = fd.ret.filtered
       /\ td.ret = fd.ret.filtered

\* The filter excluded a file and appended its summary, the filtered text
\* has a file that the budget 1 would cut, and the budget 0 left it alone.
C11_Witness ==
    /\ fd.pc = "done"
    /\ td.pc = "done"
    /\ td.maxLinesPerFile = Given(0)
    /\ fd.ret.stats.excludedFiles > 0
    /\ fd.ret.stats.includedFiles > 0
    /\ truncateDiff(fd.ret.filtered, Given(1)) # fd.ret.filtered
    /\ td.ret = fd.ret.filtered

(***************************************************************************)
(* Claims about the loops of filterDiff and truncateDiff                   *)
(***************************************************************************)
StepsReturned == fd.pc = "done" \/ td.pc = "done"

\* Every line was read by the loop `times' times.
ReadTimes(reads, times) == \A p \in DOMAIN reads : reads[p] = times

\* The call at hand has returned, and what it returned is what the function
\* gives for its arguments.  Its loop read every line of the input once,
\* or no line when the early return was taken.
ReturnedAfterOnePass ==
    /\ fd.pc = "done"
           => /\ fd.ret = filterDiff(fd.diffContent, fd.filterOptions)
              /\ ReadTimes(fd.reads,
                           IF FilterNotNeeded(fd.filterOptions) THEN 0 ELSE 1)
    /\ td.pc = "done"
           => /\ td.ret = truncateDiff(td.diffContent, td.maxLinesPerFile)
              /\ ReadTimes(td.reads,
                           IF TruncateNotNeeded(td.maxLinesPerFile) THEN 0 ELSE 1)

\* C18: filterDiff and truncateDiff are total: for every input text, also
\* one with no `diff --git' line, with headers that do not parse or with
\* files that have no hunk, and every option record, the call reads every
\* line once, comes to its end and returns a result.
C18_EveryCallReturnsAfterOnePass ==
    /\ (fd.pc = "loop" \/ td.pc = "loop") ~> StepsReturned
    /\ [](StepsReturned => ReturnedAfterOnePass)
    /\ [](fd.pc \in {"idle", "loop", "done"})
    /\ [](td.pc \in {"idle", "loop", "done"})

\* filterDiff has returned from its loop over an input that has a header
\* that does not parse, a file without a hunk and a line before the first
\* file, each line read once.
C18_Witness ==
    /\ fd.pc = "done"
    /\ ~FilterNotNeeded(fd.filterOptions)
    /\ ~IsFileHeader(fd.diffContent[1])
    /\ \E g \in GitPositions(fd.diffContent) : HeaderMatch(fd.diffContent[g]) = <<>>
    /\ \E g \in GitPositions(fd.diffContent) :
          /\ HeaderMatch(fd.diffContent[g]) # <<>>
          /\ \A p \in SegmentLines(fd.diffContent, g) : ~IsHunkHeader(fd.diffContent[p])
    /\ ReadTimes(fd.reads, 1)
    /\ fd.ret # Undefined

(***************************************************************************)
(* Claims about the BitbucketServer constructor and tool handlers          *)
(***************************************************************************)
\* The tools that change something on the Bitbucket server.
WriteTools ==
    {"create_pull_request", "merge_pull_request", "decline_pull_request",
     "add_comment", "add_comment_inline"}

ReadOnlyMode == srv.env.BITBUCKET_READ_ONLY = Given("true")

Listed == {srv.reply.tools[k] : k \in 1..Len(srv.reply.tools)}

ReadOnlyRejection ==
    /\ srv.reply.error = "MethodNotFound"
    /\ srv.reply.message = "is not available in read-only mode"

\* C19: in read-only mode (BITBUCKET_READ_ONLY = 'true') the listed tools
\* are exactly the read-only ones, none of the five writing tools among
\* them, and a call of any other tool ends in MethodNotFound with no request
\* sent to the Bitbucket API; with read-only mode off every tool is listed
\* and no call is rejected for being unavailable in read-only mode.
C19_ReadOnlyModeHidesAndRejectsWriteTools ==
    (srv.pc = "serving" /\ srv.reply # Undefined) =>
        /\ (ReadOnlyMode /\ srv.reply.request = "tools/list") =>
               /\ Listed = {ToolList[k] : k \in 1..Len(ToolList)} \ WriteTools
               /\ Listed \cap WriteTools = {}
        /\ (ReadOnlyMode /\ srv.reply.request = "tools/call"
                /\ srv.reply.name \notin {ToolList[k] : k \in 1..Len(ToolList)} \ WriteTools) =>
               /\ srv.reply.error = "MethodNotFound"
               /\ srv.reply.sent = {}
        /\ (ReadOnlyMode /\ srv.reply.request = "tools/call"
                /\ srv.reply.name \in WriteTools) => ReadOnlyRejection
        /\ (~ReadOnlyMode /\ srv.reply.request = "tools/list") =>
               srv.reply.tools = ToolList
        /\ (~ReadOnlyMode /\ srv.reply.request = "tools/call") =>
               ~ReadOnlyRejection

\* A read-only server has turned down merge_pull_request without a request.
C19_Witness ==
    /\ srv.pc = "serving"
    /\ ReadOnlyMode
    /\ srv.reply # Undefined
    /\ srv.reply.request = "tools/call"
    /\ srv.reply.name = "merge_pull_request"
    /\ ReadOnlyRejection
    /\ srv.reply.sent = {}

Unset(x) == x \in {Undefined, Given("")}

\* C20: construction fails with 'BITBUCKET_URL is required' when
\* BITBUCKET_URL is unset or empty; otherwise it fails with 'Either
\* BITBUCKET_TOKEN or BITBUCKET_USERNAME/PASSWORD is required' when there is
\* no token and not both a username and a password; in every other case it
\* succeeds; a failed construction has registered no handler.
C20_ConstructorRequiresUrlAndCredentials ==
    srv.pc \in {"failed", "serving"} =>
        /\ IF Unset(srv.env.BITBUCKET_URL)
           THEN srv.pc = "failed" /\ srv.error = "BITBUCKET_URL is required"
           ELSE IF /\ Unset(srv.env.BITBUCKET_TOKEN)
                   /\ (Unset(srv.env.BITBUCKET_USERNAME) \/ Unset(srv.env.BITBUCKET_PASSWORD))
           THEN /\ srv.pc = "failed"
                /\ srv.error = "Either BITBUCKET_TOKEN or BITBUCKET_USERNAME/PASSWORD is required"
           ELSE srv.pc = "serving" /\ srv.error = "none" /\ srv.handlers # {}
        /\ srv.pc = "failed" => srv.handlers = {}

\* Construction failed for a URL and a username without a password.
C20_Witness ==
    /\ srv.pc = "failed"
    /\ srv.env.BITBUCKET_URL = Given("x")
    /\ srv.env.BITBUCKET_TOKEN = Undefined
    /\ srv.env.BITBUCKET_USERNAME = Given("x")
    /\ srv.env.BITBUCKET_PASSWORD = Undefined
    /\ srv.error = "Either BITBUCKET_TOKEN or BITBUCKET_USERNAME/PASSWORD is required"
    /\ srv.handlers = {}

(***************************************************************************)
(* Claims about getDiff                                                    *)
(***************************************************************************)
\* The text getDiff hands to the truncation stage.
FilteredResponse ==
    IF gd.filterOptions = Undefined
    THEN gd.response
    ELSE filterDiff(gd.response, gd.filterOptions.value).filtered

\* The per-file budget: the call parameter, else the setting when it holds
\* a number, else none.
ChosenBudget ==
    IF gd.maxLinesPerFile # Undefined THEN gd.maxLinesPerFile
    ELSE IF ConfiguredMaxLines(gd.setting) \notin {Undefined, NaN}
    THEN ConfiguredMaxLines(gd.setting)
    ELSE Undefined

\* C21: getDiff returns the filtered text truncated with the call parameter
\* maxLinesPerFile when that is given, else with the setting
\* BITBUCKET_DIFF_MAX_LINES_PER_FILE, else not truncated; an explicit
\* maxLinesPerFile = 0 returns the filtered text as it is whatever the
\* setting; filterDiff is called before truncateDiff.
C21_BudgetIsParameterThenSettingThenNone ==
    (gd.pc = "done" /\ gd.ret.error = "none") =>
        /\ gd.ret.text = IF ChosenBudget = Undefined \/ ChosenBudget.value = 0
                         THEN FilteredResponse
                         ELSE truncateDiff(FilteredResponse, ChosenBudget)
        /\ gd.maxLinesPerFile = Given(0) => gd.ret.text = FilteredResponse
        /\ \A i, j \in 1..Len(gd.ret.stages) :
               (gd.ret.stages[i] = "filterDiff" /\ gd.ret.stages[j] = "truncateDiff")
                   => i < j

\* An explicit 0 kept a filtered text whole that the setting 2 would have cut.
C21_Witness ==
    /\ gd.pc = "done"
    /\ gd.ret.error = "none"
    /\ gd.maxLinesPerFile = Given(0)
    /\ gd.setting = Given(<<"2">>)
    /\ gd.filterOptions # Undefined
    /\ FilteredResponse # gd.response
    /\ truncateDiff(FilteredResponse, Given(2)) # FilteredResponse
    /\ gd.ret.text = FilteredResponse

(***************************************************************************)
(* Claims about calls that overlap                                         *)
(***************************************************************************)
\* C22: filterDiff and truncateDiff keep no state between calls and share
\* none: whatever another caller does meanwhile or did before, the value a
\* call returns is the value the function has for the call's own arguments.
C22_CallsDoNotInterfere ==
    \A c \in CallIds :
        /\ fd[c].pc = "done" =>
               fd[c].ret = filterDiff(fd[c].diffContent, fd[c].filterOptions)
        /\ td[c].pc = "done" =>
               td[c].ret = truncateDiff(td[c].diffContent, td[c].maxLinesPerFile)

\* A call of filterDiff that ran into the maxFiles cutoff has returned its
\* own result while a call with other arguments is at the end of its loop.
C22_Witness ==
    /\ fd["first"].pc = "done"
    /\ fd["first"].s.reachedMaxFiles
    /\ fd["first"].ret = filterDiff(fd["first"].diffContent, fd["first"].filterOptions)
    /\ fd["second"].pc = "loop"
    /\ fd["second"].i > Len(fd["second"].s.lines)
    /\ fd["second"].filterOptions.maxFiles = Undefined
    /\ fd["second"].diffContent # fd["first"].diffContent
    /\ ~fd["second"].s.reachedMaxFiles

(***************************************************************************)
(* Claims about the flushes of truncateDiff                                *)
(***************************************************************************)
\* What truncateDiff emits for the buffer of a file: nothing for an empty
\* buffer, otherwise its section as truncateFileSection returns it.
EmittedForBuffer(s) ==
    IF s.currentFileLines = <<>> THEN <<>>
    ELSE truncateFileSection(s.currentFileLines, s.currentFileName, s.maxLinesPerFile)

\* The loop of truncateDiff reads a `diff --git' line in this step.
ReadsFileHeader ==
    /\ td.pc = "loop"
    /\ td.i <= Len(td.s.lines)
    /\ IsFileHeader(td.s.lines[td.i])
    /\ td'.pc = "loop"
    /\ td'.i # td.i

\* No line of an earlier file comes after the `diff --git' line of a later
\* file, and every `diff --git' line of the input is in the output.
FilesInOrder(d, out) ==
    /\ \A a, b \in 1..Len(out) :
          (/\ out[a].pos > 0
           /\ out[b].pos > 0
           /\ IsFileHeader(out[b])
           /\ SegmentOf(d, out[a].pos) < SegmentOf(d, out[b].pos)) => a < b
    /\ \A g \in GitPositions(d) : InOutput(out, g)

\* C25: when truncateDiff reads a `diff --git' line, what is buffered for
\* the previous file is emitted, then the line; at the return the buffer is
\* empty and the value returned is all that was emitted; so in the output
\* every line of file k is before the `diff --git' line of file k+1.
C25_FlushBeforeRestart ==
    /\ [][ReadsFileHeader =>
              /\ td'.s.result = td.s.result \o EmittedForBuffer(td.s)
                                            \o <<td.s.lines[td.i]>>
              /\ td'.s.currentFileLines = <<>>]_vars
    /\ []((td.pc = "done" /\ td.s # Undefined) =>
              /\ td.s.currentFileLines = <<>>
              /\ td.ret = Join(td.s.result)
              /\ FilesInOrder(td.diffContent, td.ret))

\* truncateDiff has returned a text of two files, the first with a hunk that
\* was in the buffer when the second `diff --git' line was read.
C25_Witness ==
    /\ td.pc = "done"
    /\ td.s # Undefined
    /\ Len(td.diffContent) = 4
    /\ IsFileHeader(td.diffContent[1])
    /\ IsHunkHeader(td.diffContent[2])
    /\ td.diffContent[3].kind = "text"
    /\ IsFileHeader(td.diffContent[4])
    /\ td.ret = td.diffContent

(***************************************************************************)
(* Claims about getDiff: the summary block of the filter under truncation  *)
(***************************************************************************)
\* The text filterDiff returned without the lines filterDiff made up.
WithoutSummary(out) == SelectSeq(out, LAMBDA l : l.pos > 0)

\* C27: when getDiff filters and then truncates, the truncator works on the
\* lines of the included files only: the result is the truncation of those
\* lines followed by the summary block of the filter, complete and as the
\* filter wrote it, and the block does not count against maxLinesPerFile.
C27_SummaryBlockPassesTruncation ==
    (/\ gd.pc = "done"
     /\ gd.ret.error = "none"
     /\ gd.filterOptions # Undefined
     /\ ChosenBudget # Undefined
     /\ ChosenBudget.value >= 1) =>
        gd.ret.text = truncateDiff(WithoutSummary(FilteredResponse), ChosenBudget)
                      \o SyntheticLines(FilteredResponse)

====
